---- MODULE Spec2Model ----
(***************************************************************************)
(* Commit-versioning engine of kittyCrypto-gg/server (class GirhubTracker   *)
(* in src/workers/external-proxy/src/worker.ts): the decimal version        *)
(* algebra, commit-message directives and tier tags, the paginated commit   *)
(* fetch, the tracking run that appends ledger files, and the replay that   *)
(* rebuilds the ledger from the first commit.                               *)
(*                                                                          *)
(* Text is modelled as a sequence of one-character strings, so parsing,     *)
(* formatting and substring search are computed as the code computes them.  *)
(***************************************************************************)
EXTENDS Integers, Sequences, FiniteSets, Bags, TLC

VARIABLES
    algBase,    \* version algebra: the version the last bump was applied to
    algTier,    \* version algebra: the tier of the last bump ("none" at start)
    algOut,     \* version algebra: the result of the last bump
    algSteps,   \* version algebra: number of bumps applied so far
    algText,    \* version algebra: the text that was parsed
    branch,     \* host: the commits of the tracked branch, oldest first
    nextSha,    \* host: number of commits created so far (the next sha is nextSha + 1)
    now,        \* wall clock, in seconds
    files,      \* ledger directory: filename stamp -> commits of that RepoHistory file
    openai,     \* whether the tracker was constructed with a classifier client
    pc,         \* where the tracker is: "idle"; "fetch" (paging) and "process" in
                \* getCommits, "aborted" when a request of it raised;
                \* "replayFetch" (paging) and "replay" in rebuildAll
    run,        \* locals of the getCommits call in progress
    rebuild,    \* locals of the rebuildAll call in progress, kept once it has returned
    settled,    \* a tracking run persisted a file and the host has not changed since that run began
    sched       \* scheduler: its pending timers and the runs of all repositories in progress

algVars == <<algBase, algTier, algOut, algSteps, algText>>

hostVars == <<branch, nextSha>>

trackerVars == <<files, openai, pc, run, rebuild, settled>>

vars == <<algBase, algTier, algOut, algSteps, algText, branch, nextSha, now, files, openai, pc, run, rebuild, settled, sched>>

\* --------------------------------------------------------------------------
\* Bounds of the model
\* --------------------------------------------------------------------------

\* Number of successive bumps applied to one parsed version.
MaxBumps == 2

\* Commits per page of the commit list (per_page=100 in the requests).
PerPage == 2

\* Pages after which fetchCommItms stops paging (50 in the code).
MaxPages == 2

\* Commits ever created on the host in one behaviour of the paging specification.
MaxCommits == 4

\* Commits ever created on the host in one behaviour of the versioning specification.
MaxVerCommits == 3

\* Commits ever created on the host in one behaviour of the replay specification.
MaxReplayCommits == 3

\* Pages after which fetchAll stops paging (500 in the code).
MaxAllPages == 3

\* Commits per ledger file of a replay (commitsPerFile = 250 by default).
CommitsPerFile == 2

\* --------------------------------------------------------------------------
\* Text helpers (JavaScript string operations used by the tracker)
\* --------------------------------------------------------------------------

DigitChars == <<"0", "1", "2", "3", "4", "5", "6", "7", "8", "9">>

IsDigit(ch) == \E i \in 1..10 : DigitChars[i] = ch

DigitVal(ch) == (CHOOSE i \in 1..10 : DigitChars[i] = ch) - 1

\* \s of the regular expressions and String.prototype.trim
IsSpace(ch) == ch \in {" ", "\n", "\t"}

RECURSIVE TrimStart(_)
TrimStart(s) ==
    IF s # <<>> /\ IsSpace(Head(s)) THEN TrimStart(Tail(s)) ELSE s

RECURSIVE TrimEnd(_)
TrimEnd(s) ==
    IF s # <<>> /\ IsSpace(s[Len(s)]) THEN TrimEnd(SubSeq(s, 1, Len(s) - 1)) ELSE s

Trim(s) == TrimStart(TrimEnd(s))

AllDigits(s) == \A i \in 1..Len(s) : IsDigit(s[i])

\* parseInt(text, 10) of a non-empty run of decimal digits
RECURSIVE parseInt(_)
parseInt(s) ==
    IF s = <<>> THEN 0
    ELSE 10 * parseInt(SubSeq(s, 1, Len(s) - 1)) + DigitVal(s[Len(s)])

\* Number.prototype.toString of a non-negative integer
RECURSIVE NatToStr(_)
NatToStr(n) ==
    IF n < 10 THEN <<DigitChars[n + 1]>>
    ELSE NatToStr(n \div 10) \o <<DigitChars[(n % 10) + 1]>>

\* position of the first "." of s, 0 when there is none
FirstDot(s) ==
    IF \E i \in 1..Len(s) : s[i] = "."
    THEN CHOOSE i \in 1..Len(s) : s[i] = "." /\ \A j \in 1..(i - 1) : s[j] # "."
    ELSE 0

\* --------------------------------------------------------------------------
\* Version algebra
\* --------------------------------------------------------------------------

Tiers == {"major", "refactor", "feat", "minor", "fix", "tiny"}

BumpTier == Tiers \cup {"skip"}

ZeroDigits == <<0, 0, 0, 0, 0>>

DecimalVersion(major, digits, precision) ==
    [major |-> major, digits |-> digits, precision |-> precision]

clampDigit(n) == IF n < 0 THEN 0 ELSE IF n > 9 THEN 9 ELSE n

\* /^(\d+)(?:\.([0-9]+))?$/ on the trimmed text
VerMatches(t) ==
    LET dot == FirstDot(t) IN
    IF dot = 0 THEN t # <<>> /\ AllDigits(t)
    ELSE /\ dot > 1
         /\ dot < Len(t)
         /\ AllDigits(SubSeq(t, 1, dot - 1))
         /\ AllDigits(SubSeq(t, dot + 1, Len(t)))

\* parseVer whose precision is the number of fractional digits, not capped at 5
parseVerUncappedPrecision(version) ==
    LET trimmed == Trim(version) IN
    IF ~VerMatches(trimmed) THEN DecimalVersion(0, ZeroDigits, 1)
    ELSE
        LET dot == FirstDot(trimmed)
            major == parseInt(IF dot = 0 THEN trimmed ELSE SubSeq(trimmed, 1, dot - 1))
            frac == IF dot = 0 THEN <<>> ELSE SubSeq(trimmed, dot + 1, Len(trimmed))
            rawDigits == [i \in 1..Len(frac) |-> DigitVal(frac[i])]
            precision == IF Len(rawDigits) <= 1 THEN 1 ELSE Len(rawDigits)
            padded == [i \in 1..5 |-> IF i <= Len(rawDigits) THEN rawDigits[i] ELSE 0]
        IN DecimalVersion(major, [i \in 1..5 |-> clampDigit(padded[i])], precision)

parseVer(version) ==
    LET trimmed == Trim(version) IN
    IF ~VerMatches(trimmed) THEN DecimalVersion(0, ZeroDigits, 1)
    ELSE
        LET dot == FirstDot(trimmed)
            major == parseInt(IF dot = 0 THEN trimmed ELSE SubSeq(trimmed, 1, dot - 1))
            frac == IF dot = 0 THEN <<>> ELSE SubSeq(trimmed, dot + 1, Len(trimmed))
            rawDigits == [i \in 1..Len(frac) |-> DigitVal(frac[i])]
            precision ==
                IF Len(rawDigits) = 0 THEN 1
                ELSE IF Len(rawDigits) = 1 THEN 1
                ELSE IF Len(rawDigits) = 2 THEN 2
                ELSE IF Len(rawDigits) = 3 THEN 3
                ELSE IF Len(rawDigits) = 4 THEN 4
                ELSE 5
            padded == [i \in 1..5 |-> IF i <= Len(rawDigits) THEN rawDigits[i] ELSE 0]
        IN DecimalVersion(major, [i \in 1..5 |-> clampDigit(padded[i])], precision)

formatVer(v) ==
    NatToStr(v.major) \o <<".">> \o
        [i \in 1..v.precision |-> DigitChars[v.digits[i] + 1]]

\* digits at (0-based) index >= precision are zeroed
\* withPrecisionFloor that clears every digit
withPrecisionFloorDropsDigits(v, precision) ==
    DecimalVersion(v.major, ZeroDigits, precision)

\* withPrecisionFloor that keeps the digits beyond the precision
withPrecisionFloorKeepsDigits(v, precision) ==
    DecimalVersion(v.major, v.digits, precision)

withPrecisionFloor(v, precision) ==
    DecimalVersion(v.major,
                   [i \in 1..5 |-> IF i - 1 >= precision THEN 0 ELSE v.digits[i]],
                   precision)

\* the carry loop of incAt, entered at 0-based index i with digits already bumped
RECURSIVE incAtLoop(_, _, _, _)
incAtLoop(major, digits, precision, i) ==
    IF i < 0 THEN DecimalVersion(major, digits, precision)
    ELSE IF digits[i + 1] <= 9 THEN DecimalVersion(major, digits, precision)
    ELSE
        LET reset == [digits EXCEPT ![i + 1] = 0] IN
        IF i = 0 THEN DecimalVersion(major + 1, reset, precision)
        ELSE incAtLoop(major, [reset EXCEPT ![i] = @ + 1], precision, i - 1)

\* incAt with the carry out of digit 0 lost: major is not increased
incAtDropsMajorCarry(v, idx) ==
    LET r == incAtLoop(v.major, [v.digits EXCEPT ![idx + 1] = @ + 1], v.precision, idx)
    IN DecimalVersion(v.major, r.digits, r.precision)

\* incAt without the carry loop: a digit 9 becomes 10
incAtWithoutCarry(v, idx) ==
    DecimalVersion(v.major, [v.digits EXCEPT ![idx + 1] = @ + 1], v.precision)

incAt(v, idx) ==
    incAtLoop(v.major, [v.digits EXCEPT ![idx + 1] = @ + 1], v.precision, idx)

\* bumpMajorTier that keeps the precision of its argument
bumpMajorTierKeepsPrecision(base) ==
    DecimalVersion(base.major + 1, ZeroDigits, base.precision)

bumpMajorTier(base) == DecimalVersion(base.major + 1, ZeroDigits, 1)

bumpRefactorTier(base) == incAt(withPrecisionFloor(base, 1), 0)

\* bumpFeatTier that carries like the other tiers instead of saturating
bumpFeatTierCarries(base) ==
    incAt(DecimalVersion(base.major, base.digits,
                         IF base.precision >= 2 THEN base.precision ELSE 2), 1)

\* bumpFeatTier that floors the trailing digits like the other tiers
bumpFeatTierFloors(base) ==
    IF base.digits[2] >= 9 THEN base
    ELSE LET floored == withPrecisionFloor(base, 2) IN
         DecimalVersion(floored.major, [floored.digits EXCEPT ![2] = @ + 1], 2)

bumpFeatTier(base) ==
    IF base.digits[2] >= 9 THEN base
    ELSE DecimalVersion(base.major,
                        [base.digits EXCEPT ![2] = @ + 1],
                        IF base.precision >= 2 THEN base.precision ELSE 2)

bumpMinorTier(base) == incAt(withPrecisionFloor(base, 3), 2)

\* bumpFixTier that increments the first digit after the point
bumpFixTierAtFirstDigit(base) == incAt(withPrecisionFloor(base, 1), 0)

bumpFixTier(base) == incAt(withPrecisionFloor(base, 4), 3)

bumpTinyTier(base) == incAt(withPrecisionFloor(base, 5), 4)

setverToReadmeMajor(readmeMajor) ==
    DecimalVersion(IF readmeMajor >= 0 THEN readmeMajor ELSE 0, ZeroDigits, 1)

bumpVer(base, tier) ==
    IF tier = "skip" THEN base
    ELSE IF tier = "major" THEN bumpMajorTier(base)
    ELSE IF tier = "refactor" THEN bumpRefactorTier(base)
    ELSE IF tier = "feat" THEN bumpFeatTier(base)
    ELSE IF tier = "minor" THEN bumpMinorTier(base)
    ELSE IF tier = "fix" THEN bumpFixTier(base)
    ELSE bumpTinyTier(base)

\* --------------------------------------------------------------------------
\* Commit messages: the version directive and the tier tags
\* --------------------------------------------------------------------------

UpperChars ==
    <<"A", "B", "C", "D", "E", "F", "G", "H", "I", "J", "K", "L", "M",
      "N", "O", "P", "Q", "R", "S", "T", "U", "V", "W", "X", "Y", "Z">>

LowerChars ==
    <<"a", "b", "c", "d", "e", "f", "g", "h", "i", "j", "k", "l", "m",
      "n", "o", "p", "q", "r", "s", "t", "u", "v", "w", "x", "y", "z">>

LowerOfUpper ==
    [ch \in {UpperChars[i] : i \in 1..26} |->
        LowerChars[CHOOSE i \in 1..26 : UpperChars[i] = ch]]

LowerChar(ch) == IF ch \in DOMAIN LowerOfUpper THEN LowerOfUpper[ch] ELSE ch

toLowerCase(s) == [i \in 1..Len(s) |-> LowerChar(s[i])]

\* String.prototype.includes
Includes(s, t) ==
    \E i \in 1..(Len(s) - Len(t) + 1) : \A k \in 1..Len(t) : s[i + k - 1] = t[k]

SetverTag == <<"!", "s", "e", "t", "v", "e", "r">>

\* first index >= p of s that holds no white space, Len(s) + 1 when there is none
RECURSIVE SkipSpaces(_, _)
SkipSpaces(s, p) ==
    IF p <= Len(s) /\ IsSpace(s[p]) THEN SkipSpaces(s, p + 1) ELSE p

\* index after the run of non white space characters of s that starts at p
RECURSIVE TokenEnd(_, _)
TokenEnd(s, p) ==
    IF p <= Len(s) /\ ~IsSpace(s[p]) THEN TokenEnd(s, p + 1) ELSE p

\* the places where /(^|\s)!setver/i matches
SetverAt(message, i) ==
    /\ i + Len(SetverTag) - 1 <= Len(message)
    /\ i = 1 \/ IsSpace(message[i - 1])
    /\ toLowerCase(SubSeq(message, i, i + Len(SetverTag) - 1)) = SetverTag

\* group 2 of /(^|\s)!setver(?:\s*(?:=|:)?\s*([^\s]+))?/i for the match at i
SetverToken(message, i) ==
    LET p == SkipSpaces(message, i + Len(SetverTag)) IN
    IF p > Len(message) THEN <<>>
    ELSE IF message[p] \in {"=", ":"} /\ SkipSpaces(message, p + 1) <= Len(message)
    THEN LET q == SkipSpaces(message, p + 1) IN SubSeq(message, q, TokenEnd(message, q) - 1)
    ELSE SubSeq(message, p, TokenEnd(message, p) - 1)

NoDirective == [kind |-> "none", rawVersion |-> <<>>]

\* parseSetverDirective that takes a following "!" tag as the argument
parseSetverDirectiveTakesTag(message) ==
    IF ~\E i \in 1..Len(message) : SetverAt(message, i) THEN NoDirective
    ELSE
        LET i == CHOOSE k \in 1..Len(message) :
                     SetverAt(message, k) /\ \A j \in 1..(k - 1) : ~SetverAt(message, j)
            token == Trim(SetverToken(message, i))
        IN IF token = <<>> THEN [kind |-> "readmeMajor", rawVersion |-> <<>>]
           ELSE [kind |-> "explicit", rawVersion |-> token]

parseSetverDirective(message) ==
    IF ~\E i \in 1..Len(message) : SetverAt(message, i) THEN NoDirective
    ELSE
        LET i == CHOOSE k \in 1..Len(message) :
                     SetverAt(message, k) /\ \A j \in 1..(k - 1) : ~SetverAt(message, j)
            token == Trim(SetverToken(message, i))
        IN IF token = <<>> THEN [kind |-> "readmeMajor", rawVersion |-> <<>>]
           ELSE IF Head(token) = "!" THEN [kind |-> "readmeMajor", rawVersion |-> <<>>]
           ELSE [kind |-> "explicit", rawVersion |-> token]

SkipTags ==
    {<<"!", "s", "k", "i", "p">>,
     <<"!", "s", "k", "i", "p", "v", "e", "r">>,
     <<"!", "n", "o", "v", "e", "r", "s", "i", "o", "n">>}

MajorTags ==
    {<<"m", "a", "j", "o", "r">>,
     <<"b", "r", "e", "a", "k", "i", "n", "g">>,
     <<"b", "r", "e", "a", "k">>,
     <<"b", "r", "e", "a", "k", "i", "n", "g", "-", "c", "h", "a", "n", "g", "e">>,
     <<"a", "p", "i", "-", "b", "r", "e", "a", "k">>,
     <<"s", "c", "h", "e", "m", "a", "-", "b", "r", "e", "a", "k">>,
     <<"r", "e", "m", "o", "v", "e">>}

RefactorTags ==
    {<<"r", "e", "f", "a", "c", "t", "o", "r">>,
     <<"p", "e", "r", "f">>,
     <<"o", "p", "t", "i", "m", "i", "s", "e">>,
     <<"o", "p", "t", "i", "m", "i", "z", "e">>,
     <<"c", "l", "e", "a", "n", "u", "p">>,
     <<"i", "n", "t", "e", "r", "n", "a", "l">>,
     <<"t", "e", "c", "h", "d", "e", "b", "t">>}

FeatTags ==
    {<<"f", "e", "a", "t">>,
     <<"f", "e", "a", "t", "u", "r", "e">>,
     <<"a", "d", "d">>,
     <<"n", "e", "w">>,
     <<"e", "n", "h", "a", "n", "c", "e">>,
     <<"e", "x", "t", "e", "n", "d">>}

MinorTags ==
    {<<"m", "i", "n", "o", "r">>,
     <<"m", "i", "n">>,
     <<"t", "w", "e", "a", "k">>,
     <<"i", "m", "p", "r", "o", "v", "e">>}

FixTags ==
    {<<"f", "i", "x">>,
     <<"b", "u", "g">>,
     <<"b", "u", "g", "f", "i", "x">>,
     <<"p", "a", "t", "c", "h">>,
     <<"h", "o", "t", "f", "i", "x">>,
     <<"s", "e", "c", "u", "r", "i", "t", "y">>,
     <<"r", "e", "g", "r", "e", "s", "s", "i", "o", "n">>,
     <<"s", "t", "a", "b", "i", "l", "i", "t", "y">>}

TinyTags ==
    {<<"t", "i", "n", "y">>,
     <<"d", "o", "c", "s">>,
     <<"d", "o", "c">>,
     <<"r", "e", "a", "d", "m", "e">>,
     <<"c", "o", "m", "m", "e", "n", "t">>,
     <<"c", "o", "m", "m", "e", "n", "t", "s">>,
     <<"t", "y", "p", "o">>,
     <<"t", "e", "s", "t">>,
     <<"t", "e", "s", "t", "s">>,
     <<"q", "a">>,
     <<"b", "u", "i", "l", "d">>,
     <<"c", "i">>,
     <<"d", "e", "p", "s">>,
     <<"d", "e", "p">>,
     <<"b", "u", "m", "p">>,
     <<"u", "p", "g", "r", "a", "d", "e">>,
     <<"t", "o", "o", "l", "i", "n", "g">>,
     <<"s", "t", "y", "l", "e">>,
     <<"f", "o", "r", "m", "a", "t">>,
     <<"l", "i", "n", "t">>,
     <<"p", "r", "e", "t", "t", "i", "e", "r">>,
     <<"e", "s", "l", "i", "n", "t">>,
     <<"c", "h", "o", "r", "e">>,
     <<"m", "e", "t", "a">>,
     <<"h", "o", "u", "s", "e", "k", "e", "e", "p", "i", "n", "g">>}

NoTier == "null"

\* tierFromMsg that looks for the tiny family before the other families
tierFromMsgTinyFirst(message) ==
    LET lower == toLowerCase(message)
        has(tag) == Includes(lower, <<"!">> \o tag)
    IN IF \E tag \in SkipTags : Includes(lower, tag) THEN "skip"
       ELSE IF \E tag \in TinyTags : has(tag) THEN "tiny"
       ELSE IF \E tag \in MajorTags : has(tag) THEN "major"
       ELSE IF \E tag \in RefactorTags : has(tag) THEN "refactor"
       ELSE IF \E tag \in FeatTags : has(tag) THEN "feat"
       ELSE IF \E tag \in MinorTags : has(tag) THEN "minor"
       ELSE IF \E tag \in FixTags : has(tag) THEN "fix"
       ELSE NoTier

tierFromMsg(message) ==
    LET lower == toLowerCase(message)
        has(tag) == Includes(lower, <<"!">> \o tag)
    IN IF \E tag \in SkipTags : Includes(lower, tag) THEN "skip"
       ELSE IF \E tag \in MajorTags : has(tag) THEN "major"
       ELSE IF \E tag \in RefactorTags : has(tag) THEN "refactor"
       ELSE IF \E tag \in FeatTags : has(tag) THEN "feat"
       ELSE IF \E tag \in MinorTags : has(tag) THEN "minor"
       ELSE IF \E tag \in FixTags : has(tag) THEN "fix"
       ELSE IF \E tag \in TinyTags : has(tag) THEN "tiny"
       ELSE NoTier

\* --------------------------------------------------------------------------
\* The classifier
\* --------------------------------------------------------------------------

\* What one classifier call comes to: the prompt exceeds the size guard, the
\* request raises, or it answers with a text that is JSON or not, whose
\* "tier" member is some string and whose "confidence" member is a number, a
\* value of another type, or missing.
ContentReplyWith(json, tier, confType, confidence) ==
    [kind |-> "content", json |-> json, tier |-> tier,
     confType |-> confType, confidence |-> confidence]

ContentReply(json, tier) == ContentReplyWith(json, tier, "number", 1)

OversizedReply ==
    [kind |-> "oversized", json |-> FALSE, tier |-> "", confType |-> "missing", confidence |-> 0]

ThrowsReply ==
    [kind |-> "throws", json |-> FALSE, tier |-> "", confType |-> "missing", confidence |-> 0]

\* the null parseTJson returns
NoParse == [tier |-> NoTier, confidence |-> 0]

parseTJson(raw) ==
    IF ~raw.json THEN NoParse
    ELSE IF raw.tier \notin Tiers THEN NoParse
    ELSE LET conf == IF raw.confType = "number" THEN raw.confidence ELSE 0
             floored == IF conf > 1 THEN 1 ELSE conf
         IN [tier |-> raw.tier,
             confidence |-> IF floored < 0 THEN 0 ELSE floored]

\* genTier that answers fix when no classifier is configured
genTierDefaultsToFix(client, reply) ==
    IF ~client THEN "fix"
    ELSE IF reply.kind = "oversized" THEN "tiny"
    ELSE IF reply.kind = "throws" THEN "tiny"
    ELSE LET parsed == parseTJson(reply) IN
         IF parsed.tier = NoTier THEN "tiny" ELSE parsed.tier

genTier(client, reply) ==
    IF ~client THEN "tiny"
    ELSE IF reply.kind = "oversized" THEN "tiny"
    ELSE IF reply.kind = "throws" THEN "tiny"
    ELSE LET parsed == parseTJson(reply) IN
         IF parsed.tier = NoTier THEN "tiny" ELSE parsed.tier

\* --------------------------------------------------------------------------
\* Messages of the commits pushed to the host
\* --------------------------------------------------------------------------

\* "!fix: patch"
MsgFixPatch == <<"!", "f", "i", "x", ":", " ", "p", "a", "t", "c", "h">>

\* "!feat: add X"
MsgFeatAddX == <<"!", "f", "e", "a", "t", ":", " ", "a", "d", "d", " ", "X">>

\* "update"
MsgUntagged == <<"u", "p", "d", "a", "t", "e">>

\* "!setver"
MsgSetver == <<"!", "s", "e", "t", "v", "e", "r">>

\* "!setver 1.0"
MsgSetverLow == <<"!", "s", "e", "t", "v", "e", "r", " ", "1", ".", "0">>

\* "!setver 2.3"
MsgSetver23 == <<"!", "s", "e", "t", "v", "e", "r", " ", "2", ".", "3">>

\* "!setver=3.9"
MsgSetver39 == <<"!", "s", "e", "t", "v", "e", "r", "=", "3", ".", "9">>

\* "wip !skip"
MsgSkip == <<"w", "i", "p", " ", "!", "s", "k", "i", "p">>

\* "!major"
MsgMajor == <<"!", "m", "a", "j", "o", "r">>

\* "!refactor"
MsgRefactor == <<"!", "r", "e", "f", "a", "c", "t", "o", "r">>

\* "!setver 2.3 !fix"
MsgSetver23Fix ==
    <<"!", "s", "e", "t", "v", "e", "r", " ", "2", ".", "3", " ", "!", "f", "i", "x">>

\* "!setver !skip"
MsgSetverSkip == <<"!", "s", "e", "t", "v", "e", "r", " ", "!", "s", "k", "i", "p">>

\* "!setver 2"
MsgSetverBare == <<"!", "s", "e", "t", "v", "e", "r", " ", "2">>

\* "!setver 3.999999"
MsgSetverLong ==
    <<"!", "s", "e", "t", "v", "e", "r", " ", "3", ".", "9", "9", "9", "9", "9", "9">>

Messages ==
    {MsgFixPatch, MsgFeatAddX, MsgUntagged, MsgSetver, MsgSetverLow,
     MsgSetver23, MsgSetver39, MsgSkip, MsgMajor, MsgRefactor,
     MsgSetver23Fix, MsgSetverSkip, MsgSetverBare, MsgSetverLong}

\* parseSetverDirective and tierFromMsg of each of these messages, computed
\* once: what the calls on a commit's message return
setverOf == [message \in Messages |-> parseSetverDirective(message)]

taggedTierOf == [message \in Messages |-> tierFromMsg(message)]


\* --------------------------------------------------------------------------
\* The source-control host
\* --------------------------------------------------------------------------

\* '' where a sha is expected (no checkpoint)
NoSha == 0

\* '' or an unparsable text where a date is expected
NoDate == -1

\* README.md of a snapshot that cannot be fetched or holds no ${V<n>} marker
NoMarker == -1

\* the 2 h buffer of compSince, in seconds
BufferSecs == 2 * 60 * 60

\* the default of getCommits' parameter sinceDays
SinceDays == 7

HostCommit(sha, date, message, readme) ==
    [sha |-> sha, date |-> date, message |-> message, readme |-> readme]

RECURSIVE Reverse(_)
Reverse(s) == IF s = <<>> THEN <<>> ELSE Reverse(Tail(s)) \o <<Head(s)>>

Min(a, b) == IF a <= b THEN a ELSE b

\* the commit list of the branch as the host serves it: newest first, the
\* commits dated at or after `since` (NoDate: no since parameter)
HostList(since) ==
    LET inWindow(c) == since = NoDate \/ c.date >= since
    IN Reverse(SelectSeq(branch, inWindow))

\* one page of the list, and whether its Link header names a next page
HostPage(list, page) ==
    SubSeq(list, (page - 1) * PerPage + 1, Min(page * PerPage, Len(list)))

HostHasNext(list, page) == Len(list) > page * PerPage

\* the positions of the tracker at which it can see the host change: between
\* calls and between the page requests of a call (it reads the commit list
\* only while it pages, so a push that lands later in a call is the same as
\* one that lands after it)
AnyPhase == {"idle", "fetch", "replayFetch"}

\* a commit is pushed while the tracker is in one of phases: delay seconds
\* after the previous event, dated then; kinds are the <<message, marker of
\* README.md>> pairs a commit can have
Push(kinds, delays, limit, phases) ==
    /\ pc \in phases
    /\ nextSha < limit
    /\ \E kind \in kinds, delay \in delays :
          /\ now' = now + delay
          /\ branch' = Append(branch, HostCommit(nextSha + 1, now + delay, kind[1], kind[2]))
    /\ nextSha' = nextSha + 1
    /\ settled' = FALSE
    /\ run' = IF pc = "fetch" THEN [run EXCEPT !.dirty = TRUE] ELSE run
    /\ UNCHANGED <<sched, files, openai, pc, rebuild, algVars>>

\* the tip of the branch is removed by a forced push (history rewritten)
ForcePush ==
    /\ pc \in AnyPhase
    /\ branch # <<>>
    /\ branch' = SubSeq(branch, 1, Len(branch) - 1)
    /\ settled' = FALSE
    /\ run' = IF pc = "fetch" THEN [run EXCEPT !.dirty = TRUE] ELSE run
    /\ UNCHANGED <<sched, nextSha, now, files, openai, pc, rebuild, algVars>>

\* --------------------------------------------------------------------------
\* The ledger directory
\* --------------------------------------------------------------------------

CommitSummary(sha, date, message, diff, version) ==
    [sha |-> sha, date |-> date, message |-> message, diff |-> diff, version |-> version]

Stamps == DOMAIN files

MaxOf(S) == CHOOSE x \in S : \A y \in S : y <= x

\* getNow(): the stamp of the current second; stamps are fixed-width digit
\* texts, so their lexicographic order is the order of the seconds
getNow == now

\* the commits of the file whose name sorts last, <<>> when there is no file
getLatestHistoryFile ==
    IF Stamps = {} THEN <<>> ELSE files[MaxOf(Stamps)]

\* writeFile under the name made of stamp: a file of that name is replaced
WriteFile(stamp, commits) ==
    [s \in Stamps \cup {stamp} |-> IF s = stamp THEN commits ELSE files[s]]

\* --------------------------------------------------------------------------
\* Tracking: getCommits for one repository
\* --------------------------------------------------------------------------

IdleRun ==
    [lastSha |-> NoSha, sinceIso |-> NoDate, major |-> 0,
     current |-> DecimalVersion(0, ZeroDigits, 1),
     all |-> <<>>, page |-> 1, requests |-> 0, snapshot |-> <<>>, dirty |-> FALSE]

compSince(fallbackSinceDays, lastCommitDate) ==
    IF lastCommitDate = NoDate
    THEN now - fallbackSinceDays * 24 * 60 * 60
    ELSE lastCommitDate - BufferSecs

\* versionInfo.major: the marker of README.md at the branch ref, 0 when the
\* request fails or the file holds no marker
getMdVer(ok) ==
    IF ~ok \/ branch = <<>> THEN 0
    ELSE IF branch[Len(branch)].readme = NoMarker THEN 0
    ELSE branch[Len(branch)].readme

tryReadmeMajorAtSha(commit, fallbackMajor) ==
    IF commit.readme = NoMarker THEN fallbackMajor ELSE commit.readme

\* TrackStart that takes the base version from README.md even when the
\* ledger holds a checkpoint
TrackStartFromReadme(mdOutcomes) ==
    /\ pc = "idle"
    /\ \E mdOk \in mdOutcomes :
        LET lastHist == getLatestHistoryFile
            hasLast == Len(lastHist) > 0
            lastCommit == lastHist[Len(lastHist)]
            lastSha == IF hasLast THEN lastCommit.sha ELSE NoSha
            lastCommitDate == IF hasLast THEN lastCommit.date ELSE NoDate
            major == getMdVer(mdOk)
            baseText == NatToStr(major) \o <<".", "0">>
        IN run' = [lastSha |-> lastSha,
                   sinceIso |-> compSince(SinceDays, lastCommitDate),
                   major |-> major,
                   current |-> parseVer(baseText),
                   all |-> <<>>,
                   page |-> 1,
                   requests |-> 0,
                   snapshot |-> [i \in 1..Len(branch) |-> branch[i].sha],
                   dirty |-> FALSE]
    /\ pc' = "fetch"
    /\ UNCHANGED <<sched, hostVars, now, files, openai, rebuild, settled, algVars>>

\* lines 826-851: the checkpoint, the window and the base version
TrackStart(mdOutcomes) ==
    /\ pc = "idle"
    /\ \E mdOk \in mdOutcomes :
        LET lastHist == getLatestHistoryFile
            hasLast == Len(lastHist) > 0
            lastCommit == lastHist[Len(lastHist)]
            lastSha == IF hasLast THEN lastCommit.sha ELSE NoSha
            lastCommitDate == IF hasLast THEN lastCommit.date ELSE NoDate
            major == getMdVer(mdOk)
            baseText == IF hasLast THEN lastCommit.version
                        ELSE NatToStr(major) \o <<".", "0">>
        IN run' = [lastSha |-> lastSha,
                   sinceIso |-> compSince(SinceDays, lastCommitDate),
                   major |-> major,
                   current |-> parseVer(baseText),
                   all |-> <<>>,
                   page |-> 1,
                   requests |-> 0,
                   snapshot |-> [i \in 1..Len(branch) |-> branch[i].sha],
                   dirty |-> FALSE]
    /\ pc' = "fetch"
    /\ UNCHANGED <<sched, hostVars, now, files, openai, rebuild, settled, algVars>>

\* index of the first element of commits whose sha is sha, 0 when there is none
FindIndex(commits, sha) ==
    IF \E i \in 1..Len(commits) : commits[i].sha = sha
    THEN CHOOSE i \in 1..Len(commits) :
             commits[i].sha = sha /\ \A j \in 1..(i - 1) : commits[j].sha # sha
    ELSE 0

\* fetchPageOk that takes the whole page in which stopSha occurs
fetchPageOkWholePage ==
    LET list == HostList(run.sinceIso)
        pageItems == HostPage(list, run.page)
        stopIdx == IF run.lastSha = NoSha THEN 0 ELSE FindIndex(pageItems, run.lastSha)
    IN IF pageItems = <<>> THEN
            /\ pc' = "process"
            /\ run' = [run EXCEPT !.requests = @ + 1]
       ELSE IF stopIdx > 0 \/ ~HostHasNext(list, run.page) THEN
            /\ pc' = "process"
            /\ run' = [run EXCEPT !.all = @ \o pageItems, !.requests = @ + 1]
       ELSE IF run.page + 1 > MaxPages THEN
            /\ pc' = "process"
            /\ run' = [run EXCEPT !.all = @ \o pageItems, !.page = @ + 1, !.requests = @ + 1]
       ELSE /\ pc' = "fetch"
            /\ run' = [run EXCEPT !.all = @ \o pageItems, !.page = @ + 1, !.requests = @ + 1]

\* fetchPageOk without the page cap
fetchPageOkUncapped ==
    LET list == HostList(run.sinceIso)
        pageItems == HostPage(list, run.page)
        stopIdx == IF run.lastSha = NoSha THEN 0 ELSE FindIndex(pageItems, run.lastSha)
    IN IF pageItems = <<>> THEN
            /\ pc' = "process"
            /\ run' = [run EXCEPT !.requests = @ + 1]
       ELSE IF stopIdx > 0 THEN
            /\ pc' = "process"
            /\ run' = [run EXCEPT !.all = @ \o SubSeq(pageItems, 1, stopIdx), !.requests = @ + 1]
       ELSE IF ~HostHasNext(list, run.page) THEN
            /\ pc' = "process"
            /\ run' = [run EXCEPT !.all = @ \o pageItems, !.requests = @ + 1]
       ELSE /\ pc' = "fetch"
            /\ run' = [run EXCEPT !.all = @ \o pageItems, !.page = @ + 1, !.requests = @ + 1]

\* one iteration of the loop of fetchCommItms, the request answered 2xx
fetchPageOk ==
    LET list == HostList(run.sinceIso)
        pageItems == HostPage(list, run.page)
        stopIdx == IF run.lastSha = NoSha THEN 0 ELSE FindIndex(pageItems, run.lastSha)
    IN IF pageItems = <<>> THEN
            /\ pc' = "process"
            /\ run' = [run EXCEPT !.requests = @ + 1]
       ELSE IF stopIdx > 0 THEN
            /\ pc' = "process"
            /\ run' = [run EXCEPT !.all = @ \o SubSeq(pageItems, 1, stopIdx), !.requests = @ + 1]
       ELSE IF ~HostHasNext(list, run.page) THEN
            /\ pc' = "process"
            /\ run' = [run EXCEPT !.all = @ \o pageItems, !.requests = @ + 1]
       ELSE IF run.page + 1 > MaxPages THEN
            /\ pc' = "process"
            /\ run' = [run EXCEPT !.all = @ \o pageItems, !.page = @ + 1, !.requests = @ + 1]
       ELSE /\ pc' = "fetch"
            /\ run' = [run EXCEPT !.all = @ \o pageItems, !.page = @ + 1, !.requests = @ + 1]

\* a page request of fetchCommItms: answered 2xx, answered with an error
\* status (what was gathered is returned), or raising (nothing catches it
\* in getCommits, so the call ends there and its caller gets the error)
FetchPage(outcomes) ==
    /\ pc = "fetch"
    /\ \E outcome \in outcomes :
          IF outcome = "ok" THEN fetchPageOk
          ELSE IF outcome = "status"
               THEN pc' = "process" /\ run' = [run EXCEPT !.requests = @ + 1]
          ELSE pc' = "aborted" /\ run' = [run EXCEPT !.requests = @ + 1]
    /\ UNCHANGED <<sched, hostVars, now, files, openai, rebuild, settled, algVars>>

\* what a diff request comes to when it does not raise: a 2xx answer with a
\* body, a 2xx answer whose body is blank, an answer with an error status
DiffOutcomes == {"ok", "empty", "status"}

DiffBody == "diff --git"

DiffPlaceholder == "Diff is empty or too large to fetch from GitHub API."

\* fetchDiff: the text returned for an answered diff request
fetchDiff(outcome) ==
    IF outcome = "status" THEN ""
    ELSE IF outcome = "empty" THEN DiffPlaceholder
    ELSE DiffBody

\* fetchCommits: the summary of a listed commit, diffs[i] being what its diff
\* request came to; its version field first carries "<marker of its snapshot>.0"
fetchCommits(items, versionInfoMajor, diffs) ==
    [i \in 1..Len(items) |->
        CommitSummary(items[i].sha, items[i].date, items[i].message, fetchDiff(diffs[i]),
                      NatToStr(tryReadmeMajorAtSha(items[i], versionInfoMajor)) \o <<".", "0">>)]

\* every diff request answered 2xx with a body
AllDiffsOk(items) == [i \in 1..Len(items) |-> "ok"]

\* no classifier call was made for the commit
NoReply ==
    [kind |-> "none", json |-> FALSE, tier |-> "", confType |-> "missing", confidence |-> 0]

NeedsClassifier(message) ==
    setverOf[message].kind = "none" /\ taggedTierOf[message] = NoTier

\* lines 877-904: one commit of the loop over newCommits; the running
\* version and the commit as it is written
\* trackCommit that stores the formatted version for every commit
trackCommitStoresFormatted(current, c, reply) ==
    LET commitReadmeMajor == parseVer(c.version).major
        setver == setverOf[c.message]
        taggedTier == taggedTierOf[c.message]
        tier == IF taggedTier # NoTier THEN taggedTier ELSE genTier(openai, reply)
        next ==
            IF setver.kind = "explicit" THEN parseVer(setver.rawVersion)
            ELSE IF setver.kind = "readmeMajor" THEN
                (IF commitReadmeMajor > 0 THEN setverToReadmeMajor(commitReadmeMajor)
                 ELSE current)
            ELSE bumpVer(current, tier)
    IN [current |-> next, commit |-> [c EXCEPT !.version = formatVer(next)]]

trackCommit(current, c, reply) ==
    LET commitReadmeMajor == parseVer(c.version).major
        setver == setverOf[c.message]
        taggedTier == taggedTierOf[c.message]
        tier == IF taggedTier # NoTier THEN taggedTier ELSE genTier(openai, reply)
        next ==
            IF setver.kind = "explicit" THEN parseVer(setver.rawVersion)
            ELSE IF setver.kind = "readmeMajor" THEN
                (IF commitReadmeMajor > 0 THEN setverToReadmeMajor(commitReadmeMajor)
                 ELSE current)
            ELSE bumpVer(current, tier)
        version ==
            IF setver.kind = "explicit" THEN setver.rawVersion ELSE formatVer(next)
    IN [current |-> next, commit |-> [c EXCEPT !.version = version]]

RECURSIVE trackLoop(_, _, _)
trackLoop(current, newCommits, replies) ==
    IF newCommits = <<>> THEN <<>>
    ELSE LET r == trackCommit(current, Head(newCommits), Head(replies))
         IN <<r.commit>> \o trackLoop(r.current, Tail(newCommits), Tail(replies))

\* newCommitsOf that cuts at the checkpoint instead of after it
newCommitsOfKeepsCheckpoint(summaries, lastSha) ==
    LET commits == Reverse(summaries)
        lastIdx == IF lastSha # NoSha THEN FindIndex(commits, lastSha) ELSE 0
    IN SubSeq(commits, IF lastIdx > 0 THEN lastIdx ELSE 1, Len(commits))

\* newCommitsOf that leaves the list as the host gave it, newest first
newCommitsOfNewestFirst(summaries, lastSha) ==
    LET commits == summaries
        lastIdx == IF lastSha # NoSha THEN FindIndex(commits, lastSha) ELSE 0
    IN SubSeq(commits, lastIdx + 1, Len(commits))

\* lines 853-867: the fetched summaries oldest first, cut after the checkpoint
newCommitsOf(summaries, lastSha) ==
    LET commits == Reverse(summaries)
        lastIdx == IF lastSha # NoSha THEN FindIndex(commits, lastSha) ELSE 0
    IN SubSeq(commits, lastIdx + 1, Len(commits))

\* the answers the classifier calls of one run may get: one per new commit
\* that carries neither directive nor tag, when a client is configured
ReplyChoices(newCommits, replies) ==
    {f \in [1..Len(newCommits) -> replies \cup {NoReply}] :
        \A i \in 1..Len(newCommits) :
            (f[i] = NoReply) <=> ~(openai /\ NeedsClassifier(newCommits[i].message))}

\* lines 853-920: the rest of getCommits once the pages are gathered; the
\* requests made for the new commits take time, so the file is stamped later
\* than the newest commit was listed
TrackFinishWith(replies, diffOutcomes) ==
    /\ pc = "process"
    /\ \E diffs \in [1..Len(run.all) -> diffOutcomes] :
          LET newCommits == newCommitsOf(fetchCommits(run.all, run.major, diffs), run.lastSha)
          IN IF newCommits = <<>> THEN UNCHANGED <<files, now, settled>>
             ELSE /\ now' = now + 1
                  /\ \E answers \in ReplyChoices(newCommits, replies) :
                        files' = WriteFile(getNow', trackLoop(run.current, newCommits, answers))
                  /\ settled' = ~run.dirty
    /\ pc' = "idle"
    /\ run' = IdleRun
    /\ UNCHANGED <<sched, hostVars, openai, rebuild, algVars>>

\* the same with every diff request answered 2xx with a body
TrackFinish(replies) == TrackFinishWith(replies, {"ok"})

\* TrackAbort that leaves a file with the commits versioned before the failure
TrackAbortKeepsPartial ==
    /\ pc = "process"
    /\ run.all # <<>>
    /\ pc' = "aborted"
    /\ LET newCommits ==
               newCommitsOf(fetchCommits(run.all, run.major, AllDiffsOk(run.all)), run.lastSha)
       IN files' = IF newCommits = <<>> THEN files
                   ELSE WriteFile(getNow + 1,
                                  trackLoop(run.current, SubSeq(newCommits, 1, 1), <<NoReply>>))
    /\ UNCHANGED <<sched, hostVars, now, openai, run, rebuild, settled, algVars>>

\* lines 1194-1204: the diff request of a gathered commit raises inside
\* fetchCommits; nothing catches it in getCommits, so the call ends there,
\* before the loop that assigns versions and before the file is written
TrackAbort ==
    /\ pc = "process"
    /\ run.all # <<>>
    /\ pc' = "aborted"
    /\ UNCHANGED <<sched, hostVars, now, files, openai, run, rebuild, settled, algVars>>

\* the caller of getCommits catches the error and goes on
CallerCatches ==
    /\ pc = "aborted"
    /\ pc' = "idle"
    /\ run' = IdleRun
    /\ UNCHANGED <<sched, hostVars, now, files, openai, rebuild, settled, algVars>>

\* --------------------------------------------------------------------------
\* Replay: rebuildAll for one repository
\* --------------------------------------------------------------------------

\* null where a stamp is expected (no file flushed yet)
NoStamp == -1

\* the locals of rebuildAll: all and page are those of fetchAll, items the
\* list oldest first, i the loop index, histories the files flushed so far
IdleRebuild ==
    [all |-> <<>>, page |-> 1, requests |-> 0, items |-> <<>>, i |-> 0,
     current |-> parseVer(<<"0", ".", "0">>), lastSeenMajor |-> 0,
     pending |-> <<>>, lastStampUsed |-> NoStamp, histories |-> <<>>,
     answers |-> <<>>]

\* rebuildAll is called: the first page request of fetchAll is about to be sent
ReplayStart ==
    /\ pc = "idle"
    /\ pc' = "replayFetch"
    /\ rebuild' = IdleRebuild
    /\ UNCHANGED <<sched, hostVars, now, files, openai, run, settled, algVars>>

\* lines 946-967: fetchAll has returned itemsNewestFirst after one more
\* page request
replayBegin(itemsNewestFirst) ==
    IF itemsNewestFirst = <<>> THEN
         /\ pc' = "idle"
         /\ rebuild' = [rebuild EXCEPT !.all = itemsNewestFirst, !.requests = @ + 1]
    ELSE /\ pc' = "replay"
         /\ rebuild' = [rebuild EXCEPT !.all = itemsNewestFirst,
                                       !.requests = @ + 1,
                                       !.items = Reverse(itemsNewestFirst)]

\* one iteration of the loop of fetchAll, the request answered 2xx
fetchAllPageOk ==
    LET list == HostList(NoDate)
        pageItems == HostPage(list, rebuild.page)
        gathered == rebuild.all \o pageItems
    IN IF pageItems = <<>> THEN replayBegin(rebuild.all)
       ELSE IF ~HostHasNext(list, rebuild.page) THEN replayBegin(gathered)
       ELSE IF rebuild.page + 1 > MaxAllPages THEN replayBegin(gathered)
       ELSE /\ pc' = "replayFetch"
            /\ rebuild' = [rebuild EXCEPT !.all = gathered, !.page = @ + 1, !.requests = @ + 1]

\* a page request of fetchAll: answered 2xx, answered with an error status
\* (what was gathered is returned), or raising (rebuildAll ends there)
ReplayFetchPage(outcomes) ==
    /\ pc = "replayFetch"
    /\ \E outcome \in outcomes :
          IF outcome = "ok" THEN fetchAllPageOk
          ELSE IF outcome = "status" THEN replayBegin(rebuild.all)
          ELSE pc' = "idle" /\ rebuild' = IdleRebuild
    /\ UNCHANGED <<sched, hostVars, now, files, openai, run, settled, algVars>>

\* the stamp of a commit date, in seconds of the local wall clock; a missing
\* or invalid date gives the stamp of the current time
stampFromIso(iso) == IF iso = NoDate THEN getNow ELSE iso

\* flushStamp without the loop: the stamp of the date as it is
flushStampAsDated(stamp, lastStampUsed) == stamp

\* the stamp flush gives a file: the stamp of the date, moved forward one
\* second at a time while it is not after the last stamp used
RECURSIVE flushStamp(_, _)
flushStamp(stamp, lastStampUsed) ==
    IF lastStampUsed # NoStamp /\ stamp <= lastStampUsed
    THEN flushStamp(stamp + 1, lastStampUsed)
    ELSE stamp

\* replayCommit that flushes a chunk only once it holds more than
\* CommitsPerFile commits
replayCommitFlushesLate(reply, diff) ==
    LET commitObj == rebuild.items[rebuild.i + 1]
        commitMajor == tryReadmeMajorAtSha(commitObj, rebuild.lastSeenMajor)
        lastSeenMajor ==
            IF commitMajor > 0 /\ commitMajor # rebuild.lastSeenMajor
            THEN commitMajor ELSE rebuild.lastSeenMajor
        setver == setverOf[commitObj.message]
        taggedTier == taggedTierOf[commitObj.message]
        tier == IF taggedTier # NoTier THEN taggedTier ELSE genTier(openai, reply)
        current ==
            IF setver.kind = "explicit" THEN parseVer(setver.rawVersion)
            ELSE IF setver.kind = "readmeMajor" THEN
                (IF commitMajor > 0 THEN setverToReadmeMajor(commitMajor)
                 ELSE rebuild.current)
            ELSE bumpVer(rebuild.current, tier)
        version ==
            IF setver.kind = "explicit" THEN setver.rawVersion ELSE formatVer(current)
        pending == Append(rebuild.pending,
                          CommitSummary(commitObj.sha, commitObj.date, commitObj.message, diff,
                                        version))
        isLast == rebuild.i + 1 = Len(rebuild.items)
        flushes == Len(pending) > CommitsPerFile \/ isLast
        stamp == flushStamp(stampFromIso(pending[Len(pending)].date), rebuild.lastStampUsed)
    IN /\ rebuild' = [rebuild EXCEPT
                         !.i = @ + 1,
                         !.current = current,
                         !.lastSeenMajor = lastSeenMajor,
                         !.pending = IF flushes THEN <<>> ELSE pending,
                         !.lastStampUsed = IF flushes THEN stamp ELSE @,
                         !.histories = IF flushes THEN Append(@, pending) ELSE @,
                         !.answers = Append(@, reply)]
       /\ files' = IF flushes THEN WriteFile(stamp, pending) ELSE files
       /\ pc' = IF isLast THEN "idle" ELSE "replay"

\* lines 1013-1141: one iteration of the loop over items, with the flush of a
\* full chunk and, after the last item, the flush of what is pending; answers
\* keeps what the classifier said for each commit of this rebuild
replayCommit(reply, diff) ==
    LET commitObj == rebuild.items[rebuild.i + 1]
        commitMajor == tryReadmeMajorAtSha(commitObj, rebuild.lastSeenMajor)
        lastSeenMajor ==
            IF commitMajor > 0 /\ commitMajor # rebuild.lastSeenMajor
            THEN commitMajor ELSE rebuild.lastSeenMajor
        setver == setverOf[commitObj.message]
        taggedTier == taggedTierOf[commitObj.message]
        tier == IF taggedTier # NoTier THEN taggedTier ELSE genTier(openai, reply)
        current ==
            IF setver.kind = "explicit" THEN parseVer(setver.rawVersion)
            ELSE IF setver.kind = "readmeMajor" THEN
                (IF commitMajor > 0 THEN setverToReadmeMajor(commitMajor)
                 ELSE rebuild.current)
            ELSE bumpVer(rebuild.current, tier)
        version ==
            IF setver.kind = "explicit" THEN setver.rawVersion ELSE formatVer(current)
        pending == Append(rebuild.pending,
                          CommitSummary(commitObj.sha, commitObj.date, commitObj.message, diff,
                                        version))
        isLast == rebuild.i + 1 = Len(rebuild.items)
        flushes == Len(pending) >= CommitsPerFile \/ isLast
        stamp == flushStamp(stampFromIso(pending[Len(pending)].date), rebuild.lastStampUsed)
    IN /\ rebuild' = [rebuild EXCEPT
                         !.i = @ + 1,
                         !.current = current,
                         !.lastSeenMajor = lastSeenMajor,
                         !.pending = IF flushes THEN <<>> ELSE pending,
                         !.lastStampUsed = IF flushes THEN stamp ELSE @,
                         !.histories = IF flushes THEN Append(@, pending) ELSE @,
                         !.answers = Append(@, reply)]
       /\ files' = IF flushes THEN WriteFile(stamp, pending) ELSE files
       /\ pc' = IF isLast THEN "idle" ELSE "replay"

\* the next commit of the replay: its diff is fetched (a request that raises
\* ends rebuildAll, the files flushed so far stay), then it is versioned
ReplayCommit(replies, outcomes) ==
    /\ pc = "replay"
    /\ \E outcome \in outcomes :
          IF outcome # "raises" THEN
              \E reply \in (IF openai /\ NeedsClassifier(rebuild.items[rebuild.i + 1].message)
                            THEN replies ELSE {NoReply}) :
                  replayCommit(reply, fetchDiff(outcome))
          ELSE /\ pc' = "idle"
               /\ rebuild' = IdleRebuild
               /\ files' = files
    /\ UNCHANGED <<sched, hostVars, now, openai, run, settled, algVars>>

\* --------------------------------------------------------------------------
\* Specification of paging and resuming: few messages, several pages
\* --------------------------------------------------------------------------

\* the clock at the start of a behaviour: far enough from 0 for every window
\* bound to be a positive number of seconds
StartTime == 30 * 24 * 60 * 60

InitHost ==
    /\ branch = <<>>
    /\ nextSha = 0
    /\ now = StartTime

\* no GithubAutoScheduler has been constructed
NoScheduler == [timers |-> {}, runs |-> EmptyBag, onceCalls |-> 0]

InitTracker ==
    /\ files = <<>>
    /\ pc = "idle"
    /\ run = IdleRun
    /\ rebuild = IdleRebuild
    /\ settled = FALSE

InitAlgIdle ==
    /\ algBase = DecimalVersion(0, ZeroDigits, 1)
    /\ algTier = "none"
    /\ algOut = algBase
    /\ algSteps = 0
    /\ algText = <<>>

Delays == {1, BufferSecs + 1}

PageOutcomes == {"ok", "status", "raises"}

InitTrack ==
    /\ InitHost
    /\ InitTracker
    /\ sched = NoScheduler
    /\ InitAlgIdle
    /\ openai = FALSE

NextTrack ==
    \/ Push({<<MsgUntagged, NoMarker>>}, Delays, MaxCommits, AnyPhase)
    \/ ForcePush
    \/ TrackStart({TRUE})
    \/ FetchPage(PageOutcomes)
    \/ TrackFinish({})
    \/ TrackAbort
    \/ CallerCatches

SpecTrack == InitTrack /\ [][NextTrack]_vars

\* --------------------------------------------------------------------------
\* Specification of versioning: directives, tags, markers and classifier
\* answers, on a branch that grows between the tracking runs
\* --------------------------------------------------------------------------

VerKinds ==
    {<<MsgSetver23, NoMarker>>, <<MsgSetverLow, NoMarker>>,
     <<MsgSetver, NoMarker>>, <<MsgSetver, 2>>,
     <<MsgFixPatch, NoMarker>>, <<MsgFeatAddX, NoMarker>>, <<MsgUntagged, NoMarker>>}

VerReplies == {ContentReply(TRUE, "major"), ContentReply(TRUE, "patch"), ThrowsReply}

InitVer ==
    /\ InitHost
    /\ InitTracker
    /\ sched = NoScheduler
    /\ InitAlgIdle
    /\ openai \in BOOLEAN

NextVer ==
    \/ Push(VerKinds, {1}, MaxVerCommits, {"idle"})
    \/ TrackStart(BOOLEAN)
    \/ FetchPage({"ok"})
    \/ TrackFinish(VerReplies)

SpecVer == InitVer /\ [][NextVer]_vars

\* --------------------------------------------------------------------------
\* Specification of ordering: tracking runs and replays of the same branch
\* --------------------------------------------------------------------------

ReplayKinds ==
    {<<MsgSetver39, NoMarker>>, <<MsgSetver, NoMarker>>,
     <<MsgRefactor, NoMarker>>, <<MsgUntagged, 3>>}

ReplayReplies == {ContentReply(TRUE, "feat")}

InitReplay ==
    /\ InitHost
    /\ InitTracker
    /\ sched = NoScheduler
    /\ InitAlgIdle
    /\ openai = TRUE

NextReplay ==
    \/ Push(ReplayKinds, {1}, MaxReplayCommits, {"idle"})
    \/ TrackStart({TRUE})
    \/ FetchPage({"ok"})
    \/ TrackFinish(ReplayReplies)
    \/ ReplayStart
    \/ ReplayFetchPage({"ok", "status"})
    \/ ReplayCommit(ReplayReplies, {"ok", "raises"})

SpecReplay == InitReplay /\ [][NextReplay]_vars

\* --------------------------------------------------------------------------
\* Specification of the page caps: a branch that is already longer than the
\* caps when the tracker is constructed
\* --------------------------------------------------------------------------

\* one commit more than fetchAll requests at most
CapCommits == PerPage * MaxAllPages + 1

\* a branch of n commits made one second apart, the newest a second ago
BranchOf(n) ==
    [i \in 1..n |-> HostCommit(i, StartTime - 1 - (n - i), MsgUntagged, NoMarker)]

InitCap ==
    /\ \E n \in 0..CapCommits :
          /\ branch = BranchOf(n)
          /\ nextSha = n
    /\ now = StartTime
    /\ InitTracker
    /\ sched = NoScheduler
    /\ InitAlgIdle
    /\ openai = FALSE

NextCap ==
    \/ TrackStart({TRUE})
    \/ FetchPage(PageOutcomes)
    \/ TrackFinish({})
    \/ CallerCatches
    \/ ReplayStart
    \/ ReplayFetchPage(PageOutcomes)
    \/ ReplayCommit({}, {"ok"})

\* every page request is awaited and ends: answered, or raising
SpecCap ==
    /\ InitCap
    /\ [][NextCap]_vars
    /\ WF_vars(FetchPage(PageOutcomes))
    /\ WF_vars(ReplayFetchPage(PageOutcomes))

\* --------------------------------------------------------------------------
\* Specification of the replay stamps: a branch whose commits carry any
\* author dates, replayed
\* --------------------------------------------------------------------------

\* enough commits for two full chunks and a last, shorter one
StampCommits == 2 * CommitsPerFile + 1

\* author dates: missing or invalid, in the past, in the future
StampDates == {NoDate, StartTime - 1, StartTime + 1}

InitStamp ==
    /\ \E n \in 0..StampCommits : \E dates \in [1..n -> StampDates] :
          /\ branch = [i \in 1..n |-> HostCommit(i, dates[i], MsgUntagged, NoMarker)]
          /\ nextSha = n
    /\ now = StartTime
    /\ InitTracker
    /\ sched = NoScheduler
    /\ InitAlgIdle
    /\ openai = FALSE

NextStamp ==
    \/ ReplayStart
    \/ ReplayFetchPage({"ok"})
    \/ ReplayCommit({}, {"ok"})

SpecStamp == InitStamp /\ [][NextStamp]_vars

\* --------------------------------------------------------------------------
\* Specification of the directives: a branch whose commits carry version
\* directives next to tags, with and without markers, tracked and replayed
\* --------------------------------------------------------------------------

\* Commits of the branch.
MaxDirCommits == 3

DirKinds ==
    {<<MsgSetver23Fix, NoMarker>>, <<MsgSetverSkip, NoMarker>>, <<MsgSetverSkip, 0>>,
     <<MsgSetverSkip, 2>>, <<MsgFixPatch, NoMarker>>}

\* a branch of commits of the given kinds made one second apart, the newest
\* a second ago
BranchOfKinds(kinds) ==
    [i \in 1..Len(kinds) |->
        HostCommit(i, StartTime - 1 - (Len(kinds) - i), kinds[i][1], kinds[i][2])]

InitDirective ==
    /\ \E n \in 0..MaxDirCommits : \E kinds \in [1..n -> DirKinds] :
          /\ branch = BranchOfKinds(kinds)
          /\ nextSha = n
    /\ now = StartTime
    /\ InitTracker
    /\ sched = NoScheduler
    /\ InitAlgIdle
    /\ openai = FALSE

NextDirective ==
    \/ TrackStart({TRUE})
    \/ FetchPage({"ok"})
    \/ TrackFinish({})
    \/ ReplayStart
    \/ ReplayFetchPage({"ok"})
    \/ ReplayCommit({}, {"ok"})

SpecDirective == InitDirective /\ [][NextDirective]_vars

\* --------------------------------------------------------------------------
\* Specification of the recorded version texts: as SpecDirective, the commits
\* carrying explicit arguments that are and are not formatted versions
\* --------------------------------------------------------------------------

ExplicitKinds ==
    {<<MsgSetverBare, NoMarker>>, <<MsgSetverLong, NoMarker>>, <<MsgSetver23, NoMarker>>,
     <<MsgFixPatch, NoMarker>>}

InitExplicit ==
    /\ \E n \in 0..MaxDirCommits : \E kinds \in [1..n -> ExplicitKinds] :
          /\ branch = BranchOfKinds(kinds)
          /\ nextSha = n
    /\ now = StartTime
    /\ InitTracker
    /\ sched = NoScheduler
    /\ InitAlgIdle
    /\ openai = FALSE

SpecExplicit == InitExplicit /\ [][NextDirective]_vars

\* --------------------------------------------------------------------------
\* Specification of resumed runs: the ledger holds a checkpoint, commits are
\* pushed between tracking runs
\* --------------------------------------------------------------------------

MaxSplitCommits == 4

SplitKinds ==
    {<<MsgSetver, NoMarker>>, <<MsgSetverLong, NoMarker>>, <<MsgFixPatch, NoMarker>>,
     <<MsgFixPatch, 2>>, <<MsgFeatAddX, NoMarker>>}

\* the commit "!setver 1.0" was pushed two seconds ago and a run versioned it
\* a second ago
InitSplit ==
    /\ branch = <<HostCommit(1, StartTime - 2, MsgSetverLow, NoMarker)>>
    /\ nextSha = 1
    /\ now = StartTime
    /\ files = (StartTime - 1) :>
                   <<CommitSummary(1, StartTime - 2, MsgSetverLow, DiffBody, <<"1", ".", "0">>)>>
    /\ pc = "idle"
    /\ run = IdleRun
    /\ rebuild = IdleRebuild
    /\ settled = FALSE
    /\ sched = NoScheduler
    /\ InitAlgIdle
    /\ openai = FALSE

NextSplit ==
    \/ Push(SplitKinds, {1}, MaxSplitCommits, {"idle"})
    \/ TrackStart({TRUE})
    \/ FetchPage({"ok"})
    \/ TrackFinish({})

SpecSplit == InitSplit /\ [][NextSplit]_vars

\* --------------------------------------------------------------------------
\* Specification of the classifier's answers: a replay of commits that carry
\* no directive, no skip marker and no tier keyword, with a classifier
\* --------------------------------------------------------------------------

MaxClsCommits == 2

\* the answers of the classifier: within the contract, not JSON, a tier that
\* is unknown or missing, a confidence that is missing, not a number or out
\* of 0..1, a request that raises or times out, a prompt over the size guard
ClsReplies ==
    {ContentReply(TRUE, "major"),
     ContentReplyWith(TRUE, "fix", "number", 0),
     ContentReply(FALSE, "major"),
     ContentReply(TRUE, "patch"),
     ContentReply(TRUE, ""),
     ContentReplyWith(TRUE, "feat", "missing", 0),
     ContentReplyWith(TRUE, "refactor", "string", 0),
     ContentReplyWith(TRUE, "minor", "number", 2),
     ContentReplyWith(TRUE, "fix", "number", -1),
     ThrowsReply,
     OversizedReply}

InitClassify ==
    /\ \E n \in 0..MaxClsCommits :
          /\ branch = BranchOfKinds([i \in 1..n |-> <<MsgUntagged, NoMarker>>])
          /\ nextSha = n
    /\ now = StartTime
    /\ InitTracker
    /\ sched = NoScheduler
    /\ InitAlgIdle
    /\ openai = TRUE

NextClassify ==
    \/ ReplayStart
    \/ ReplayFetchPage({"ok"})
    \/ ReplayCommit(ClsReplies, {"ok"})

SpecClassify == InitClassify /\ [][NextClassify]_vars

\* --------------------------------------------------------------------------
\* Specification of the diff requests: tracking and replay of a branch whose
\* diff requests are answered with a body, a blank body or an error status,
\* or raise
\* --------------------------------------------------------------------------

MaxDiffCommits == 2

InitDiff ==
    /\ \E n \in 0..MaxDiffCommits :
          /\ branch = BranchOfKinds([i \in 1..n |-> <<MsgFixPatch, NoMarker>>])
          /\ nextSha = n
    /\ now = StartTime
    /\ InitTracker
    /\ sched = NoScheduler
    /\ InitAlgIdle
    /\ openai = FALSE

NextDiff ==
    \/ TrackStart({TRUE})
    \/ FetchPage({"ok"})
    \/ TrackFinishWith({}, DiffOutcomes)
    \/ TrackAbort
    \/ CallerCatches
    \/ ReplayStart
    \/ ReplayFetchPage({"ok"})
    \/ ReplayCommit({}, DiffOutcomes \cup {"raises"})

SpecDiff == InitDiff /\ [][NextDiff]_vars

\* --------------------------------------------------------------------------
\* The weekly scheduler (src/blogScheduler.ts): its timers and the runs of
\* runFullTrackingForAllRepos in progress. A run is kept with the time it
\* returns at; Sunday 00:00 is every multiple of WeekSecs.
\* --------------------------------------------------------------------------

MaxSchedWeeks == 3

MaxOnceCalls == 1

WeekSecs == 7 * 24 * 60 * 60

\* how long a run over all repositories takes
RunDurations == {60 * 60, 2 * 60 * 60}

\* the last instant the scheduler is followed to
SchedEnd == StartTime + MaxSchedWeeks * WeekSecs

\* msUntilNextSunday, in seconds: 0 on a Sunday at 00:00:00, else the time
\* to the next Sunday 00:00
msUntilNextSunday(t) == (WeekSecs - (t % WeekSecs)) % WeekSecs

Timer(due, kind) == [due |-> due, kind |-> kind]

Running(kind, ends) == [kind |-> kind, ends |-> ends]

\* the finally block of the callback of scheduleNext: a timer that runs
\* runFullTrackingForAllRepos seven days later, then scheduleNext()
scheduleNext(t) == {Timer(t + WeekSecs, "week"), Timer(t + msUntilNextSunday(t), "sunday")}

\* the constructor: this.scheduleNext()
InitSched ==
    /\ InitHost
    /\ InitTracker
    /\ InitAlgIdle
    /\ openai = TRUE
    /\ sched = [NoScheduler EXCEPT !.timers = {Timer(now + msUntilNextSunday(now), "sunday")}]

\* a timer that is due fires: its callback calls runFullTrackingForAllRepos;
\* of a return and a timer that fall on the same instant the return is first
TimerFires(kind) ==
    /\ \A r \in BagToSet(sched.runs) : r.ends > now
    /\ \E t \in sched.timers : \E d \in RunDurations :
          /\ t.kind = kind
          /\ t.due <= now
          /\ sched' = [sched EXCEPT !.timers = @ \ {t},
                                    !.runs = @ (+) SetToBag({Running(kind, now + d)})]
    /\ UNCHANGED <<algVars, hostVars, now, trackerVars>>

\* the callback of the timer set by scheduleNext
SundayTimer == TimerFires("sunday")

\* the callback of the timer of seven days
WeekTimer == TimerFires("week")

\* runOnceNow is called
RunOnceNow ==
    /\ sched.onceCalls < MaxOnceCalls
    /\ \E d \in RunDurations :
          sched' = [sched EXCEPT !.onceCalls = @ + 1,
                                 !.runs = @ (+) SetToBag({Running("once", now + d)})]
    /\ UNCHANGED <<algVars, hostVars, now, trackerVars>>

\* runFullTrackingForAllRepos returns; the callback of scheduleNext then
\* runs its finally block
RunReturns ==
    /\ \E r \in BagToSet(sched.runs) :
          /\ r.ends <= now
          /\ sched' = [sched EXCEPT !.runs = @ (-) SetToBag({r}),
                                    !.timers = IF r.kind = "sunday"
                                               THEN @ \cup scheduleNext(now) ELSE @]
    /\ UNCHANGED <<algVars, hostVars, now, trackerVars>>

\* the instants at which something is to happen
Pending == {t.due : t \in sched.timers} \cup {r.ends : r \in BagToSet(sched.runs)}

\* nothing is to happen now: time passes until the next timer or return
TimePasses ==
    /\ Pending # {}
    /\ \A t \in Pending : t > now
    /\ \E next \in Pending :
          /\ \A t \in Pending : next <= t
          /\ next <= SchedEnd
          /\ now' = next
    /\ UNCHANGED <<algVars, hostVars, trackerVars, sched>>

NextSched ==
    \/ SundayTimer
    \/ WeekTimer
    \/ RunOnceNow
    \/ RunReturns
    \/ TimePasses

SpecSched == InitSched /\ [][NextSched]_vars

\* --------------------------------------------------------------------------
\* Specification of the version algebra: a parsed version, then bumps
\* --------------------------------------------------------------------------

\* version texts handed to parseVer: "<major>" and "<major>.<digits>"
AlgMajors == {<<"0">>, <<"3">>, <<"1", "2">>}

AlgDigitChars == {"0", "5", "9"}

RECURSIVE FracTexts(_)
FracTexts(n) ==
    IF n = 0 THEN {<<>>}
    ELSE LET shorter == FracTexts(n - 1) IN
         shorter \cup {f \o <<c>> : f \in {g \in shorter : Len(g) = n - 1}, c \in AlgDigitChars}

AlgTexts ==
    AlgMajors \cup
    {m \o <<".">> \o f : m \in AlgMajors, f \in FracTexts(5) \ {<<>>}}

\* Texts with more than five fractional digits.
LongTexts ==
    { <<"3", ".", "5", "0", "9", "5", "9", "5">>,
      <<"3", ".", "0", "0", "0", "0", "0", "9">>,
      <<"1", "2", ".", "9", "9", "9", "9", "9", "9", "9">>,
      <<"0", "0", "7", ".", "5">> }

\* Texts wrapped in white space, which parseVer trims.
PaddedTexts ==
    { <<" ", "3", ".", "5">>, <<"3", ".", "5", "9", " ">>, <<" ", "1", "2", " ">> }

\* Texts the pattern of parseVer does not match.
MalformedTexts ==
    { <<>>, <<" ">>, <<".">>, <<"3", ".">>, <<".", "5">>, <<"v", "3", ".", "5">>,
      <<"3", ".", "5", ".", "9">>, <<"-", "3">>, <<"3", ".", "x">>, <<"3", " ", ".", "5">>,
      <<"3", ".", "5", "-", "r", "c">>, <<"m", "a", "j", "o", "r">> }

ParseTexts == AlgTexts \cup LongTexts \cup PaddedTexts \cup MalformedTexts

\* Raw versions of explicit !setver directives and major markers applied
\* between bumps.
AlgSetverTexts == {<<"2", ".", "3">>, <<"3", ".", "9", "9", "9", "9", "9", "9">>, <<"x">>}

AlgMarkerMajors == {2, 7}

InitAlg ==
    /\ \E t \in ParseTexts :
          /\ algText = t
          /\ algBase = parseVer(t)
    /\ algTier = "none"
    /\ algOut = algBase
    /\ algSteps = 0
    /\ InitHost
    /\ InitTracker
    /\ sched = NoScheduler
    /\ openai = FALSE

ApplyBump(tier) ==
    /\ algSteps < MaxBumps
    /\ algBase' = algOut
    /\ algTier' = tier
    /\ algOut' = bumpVer(algOut, tier)
    /\ algSteps' = algSteps + 1
    /\ UNCHANGED <<sched, algText, hostVars, now, trackerVars>>

\* current = parseVer(setver.rawVersion)
ApplySetver(rawVersion) ==
    /\ algSteps < MaxBumps
    /\ algBase' = algOut
    /\ algTier' = "setver"
    /\ algOut' = parseVer(rawVersion)
    /\ algSteps' = algSteps + 1
    /\ UNCHANGED <<sched, algText, hostVars, now, trackerVars>>

\* current = setverToReadmeMajor(commitReadmeMajor)
ApplyReadmeMajor(readmeMajor) ==
    /\ algSteps < MaxBumps
    /\ algBase' = algOut
    /\ algTier' = "readmeMajor"
    /\ algOut' = setverToReadmeMajor(readmeMajor)
    /\ algSteps' = algSteps + 1
    /\ UNCHANGED <<sched, algText, hostVars, now, trackerVars>>

NextAlg ==
    \/ \E tier \in BumpTier : ApplyBump(tier)
    \/ \E rawVersion \in AlgSetverTexts : ApplySetver(rawVersion)
    \/ \E readmeMajor \in AlgMarkerMajors : ApplyReadmeMajor(readmeMajor)

SpecAlg == InitAlg /\ [][NextAlg]_vars

\* --------------------------------------------------------------------------
\* Specification of the keyword step: tierFromMsg applied to messages made of
\* several words, tags of the families among them, in every order
\* --------------------------------------------------------------------------

MaxTagWords == 2

\* words of a commit message and the family each is a tag of ("null" for a
\* word that is no tag: it lacks the "!")
TagWords ==
    {[text |-> <<"!", "m", "a", "j", "o", "r">>, family |-> "major"],
     [text |-> <<"!", "R", "e", "m", "o", "v", "e">>, family |-> "major"],
     [text |-> <<"!", "p", "e", "r", "f">>, family |-> "refactor"],
     [text |-> <<"!", "a", "d", "d">>, family |-> "feat"],
     [text |-> <<"!", "m", "i", "n">>, family |-> "minor"],
     [text |-> <<"!", "B", "U", "G">>, family |-> "fix"],
     [text |-> <<"!", "d", "o", "c", "s">>, family |-> "tiny"],
     [text |-> <<"!", "s", "k", "i", "p">>, family |-> "skip"],
     [text |-> <<"!", "N", "o", "V", "e", "r", "s", "i", "o", "n">>, family |-> "skip"],
     [text |-> <<"f", "i", "x">>, family |-> "null"],
     [text |-> <<"u", "p", "d", "a", "t", "e">>, family |-> "null"]}

\* the sequences of at most MaxTagWords different words
WordSeqs ==
    UNION {{ws \in [1..n -> TagWords] : \A i, j \in 1..n : i # j => ws[i] # ws[j]} :
             n \in 0..MaxTagWords}

\* the message whose words are ws, one space between two words
RECURSIVE JoinWords(_)
JoinWords(ws) ==
    IF ws = <<>> THEN <<>>
    ELSE IF Len(ws) = 1 THEN ws[1].text
    ELSE ws[1].text \o <<" ">> \o JoinWords(Tail(ws))

InitTier ==
    /\ \E ws \in WordSeqs : algText = JoinWords(ws)
    /\ algBase = DecimalVersion(0, ZeroDigits, 1)
    /\ algTier = "none"
    /\ algOut = algBase
    /\ algSteps = 0
    /\ InitHost
    /\ InitTracker
    /\ sched = NoScheduler
    /\ openai = FALSE

\* the keyword step of a commit: tierFromMsg(c.message)
ApplyTierFromMsg ==
    /\ algSteps = 0
    /\ algTier' = tierFromMsg(algText)
    /\ algSteps' = 1
    /\ UNCHANGED <<sched, algBase, algOut, algText, hostVars, now, trackerVars>>

NextTier == ApplyTierFromMsg

SpecTier == InitTier /\ [][NextTier]_vars

\* --------------------------------------------------------------------------
\* Properties of the version algebra (checked under SpecAlg)
\* --------------------------------------------------------------------------

CarryTiers == {"refactor", "minor", "fix", "tiny"}

\* the digit index a carrying tier increments
CarryIndex(tier) ==
    IF tier = "refactor" THEN 0
    ELSE IF tier = "minor" THEN 2
    ELSE IF tier = "fix" THEN 3
    ELSE 4

RECURSIVE Pow10(_)
Pow10(n) == IF n = 0 THEN 1 ELSE 10 * Pow10(n - 1)

\* digits 0..k read as a (k+1)-digit decimal number
RECURSIVE LeadNumber(_, _)
LeadNumber(digits, k) ==
    IF k < 0 THEN 0 ELSE 10 * LeadNumber(digits, k - 1) + digits[k + 1]

DigitsInRange(v) == \A i \in 1..5 : v.digits[i] \in 0..9

Text39 == <<"3", ".", "9">>

Text40 == <<"4", ".", "0">>

\* C7: a bump of tier refactor, minor, fix or tiny with target index k zeroes
\* digits k+1..4, sets precision to k+1 and adds one to digits 0..k read as a
\* (k+1)-digit number modulo 10^(k+1); major grows by one exactly when that
\* number wraps to zero, and then all five digits are 0.  refactor on "3.9"
\* formats as "4.0"; fix on digit 3 = 9 with digit 2 < 9 resets digit 3 and
\* increments digit 2.
C7_CarryRule ==
    /\ algTier \in CarryTiers =>
         LET k == CarryIndex(algTier)
             n == (LeadNumber(algBase.digits, k) + 1) % Pow10(k + 1)
         IN /\ DigitsInRange(algOut)
            /\ \A i \in (k + 2)..5 : algOut.digits[i] = 0
            /\ algOut.precision = k + 1
            /\ LeadNumber(algOut.digits, k) = n
            /\ algOut.major = algBase.major + (IF n = 0 THEN 1 ELSE 0)
            /\ n = 0 => algOut.digits = ZeroDigits
    /\ (algTier = "refactor" /\ algBase = parseVer(Text39)) => formatVer(algOut) = Text40
    /\ (algTier = "fix" /\ algBase.digits[4] = 9 /\ algBase.digits[3] < 9) =>
         /\ algOut.digits[4] = 0
         /\ algOut.digits[3] = algBase.digits[3] + 1
         /\ algOut.major = algBase.major

\* C7 witness: a fix bump was applied to a version whose digit 3 is 9 and
\* whose digit 2 is below 9, and digit 3 of the result is 0
C7_Witness ==
    /\ algTier = "fix"
    /\ algBase.digits[4] = 9
    /\ algBase.digits[3] < 9
    /\ algOut.digits[4] = 0

\* C8: a feat bump of a version whose digit 1 is 9 returns the version
\* unchanged, and no feat bump ever changes digit 0 or major.
C8_FeatSaturates ==
    algTier = "feat" =>
        /\ algBase.digits[2] = 9 => algOut = algBase
        /\ algOut.major = algBase.major
        /\ algOut.digits[1] = algBase.digits[1]

\* C8 witness: a second bump in a row applied to a version with digit 1 = 9
\* is a feat bump whose result has precision 5 and a non-zero last digit
C8_Witness ==
    /\ algTier = "feat"
    /\ algSteps = 2
    /\ algBase.digits[2] = 9
    /\ algBase.digits[5] = 9
    /\ algOut = algBase

\* C9: a feat bump of a version whose digit 1 is below 9 adds one to digit 1,
\* leaves major and digits 0, 2, 3 and 4 unchanged and sets precision to
\* max(precision, 2).
C9_FeatBelowSaturation ==
    (algTier = "feat" /\ algBase.digits[2] < 9) =>
        /\ algOut.digits[2] = algBase.digits[2] + 1
        /\ algOut.major = algBase.major
        /\ \A i \in {1, 3, 4, 5} : algOut.digits[i] = algBase.digits[i]
        /\ algOut.precision = (IF algBase.precision > 2 THEN algBase.precision ELSE 2)

\* C9 witness: a feat bump below saturation of a version with non-zero
\* trailing digits, which it keeps
C9_Witness ==
    /\ algTier = "feat"
    /\ algBase.digits[2] = 5
    /\ algBase.digits[4] = 9
    /\ algBase.precision = 5
    /\ algOut.digits[2] = 6
    /\ algOut.digits[4] = 9

\* C10: a major bump yields major + 1, all five digits 0 and precision 1, and
\* formats as "<major+1>.0".
C10_MajorBump ==
    algTier = "major" =>
        /\ algOut.major = algBase.major + 1
        /\ algOut.digits = ZeroDigits
        /\ algOut.precision = 1
        /\ formatVer(algOut) = NatToStr(algBase.major + 1) \o <<".", "0">>

\* C10 witness: a major bump of a version with precision 5 and non-zero digits
C10_Witness ==
    /\ algTier = "major"
    /\ algBase.precision = 5
    /\ algBase.digits[5] = 9
    /\ algBase.major = 12
    /\ algOut.major = 13

\* C11: every version reachable from a parsed text by bumps of the seven
\* tiers, explicit version directives and marker-major floors has its five
\* digits in 0..9 and its precision in 1..5.
C11_DigitRange ==
    \A v \in {algBase, algOut} :
        /\ DigitsInRange(v)
        /\ v.precision \in 1..5

\* C11 witness: after an explicit directive set the version to all nines, a
\* tiny bump carried through every digit into major
C11_Witness ==
    /\ algSteps = 2
    /\ algTier = "tiny"
    /\ algBase.digits = <<9, 9, 9, 9, 9>>
    /\ algOut.digits = ZeroDigits
    /\ algOut.major = algBase.major + 1

\* "<uint>" or "<uint>.<digits>"
IsVersionText(t) ==
    \E m \in 1..Len(t) :
        /\ AllDigits(SubSeq(t, 1, m))
        /\ \/ m = Len(t)
           \/ /\ m + 2 <= Len(t)
              /\ t[m + 1] = "."
              /\ AllDigits(SubSeq(t, m + 2, Len(t)))

MajorText(t) == IF FirstDot(t) = 0 THEN t ELSE SubSeq(t, 1, FirstDot(t) - 1)

FracText(t) == IF FirstDot(t) = 0 THEN <<>> ELSE SubSeq(t, FirstDot(t) + 1, Len(t))

\* what parse is stated to return for the text t
ParseStated(t, out) ==
    IF ~IsVersionText(t)
    THEN /\ out = DecimalVersion(0, ZeroDigits, 1)
         /\ formatVer(out) = <<"0", ".", "0">>
    ELSE LET frac == FracText(t) IN
         /\ out.major = parseInt(MajorText(t))
         /\ \A i \in 1..5 :
               out.digits[i] = (IF i <= Len(frac) THEN DigitVal(frac[i]) ELSE 0)
         /\ out.precision =
               (IF Len(frac) <= 1 THEN 1 ELSE IF Len(frac) > 5 THEN 5 ELSE Len(frac))

\* C12: parse is total; white space around the text is dropped first, and
\* then text that is not "<uint>" or "<uint>.<digits>" yields major 0, digits
\* [0,0,0,0,0], precision 1 (formats as "0.0"), while for matching text
\* fractional digits beyond the fifth are ignored, missing ones are zero, and
\* precision is 1 for zero or one fractional digit and otherwise the number of
\* fractional digits capped at 5.
C12_ParseTotal ==
    algSteps = 0 =>
        /\ algBase \in [major : Nat, digits : [1..5 -> 0..9], precision : 1..5]
        /\ ParseStated(Trim(algText), algBase)

\* C12 as stated: the same, for the text as given
C12_AsStated ==
    algSteps = 0 =>
        /\ algBase \in [major : Nat, digits : [1..5 -> 0..9], precision : 1..5]
        /\ ParseStated(algText, algBase)

\* C12 witness: a text with a suffix after the digits was parsed to 0.0
C12_Witness ==
    /\ algSteps = 0
    /\ algText = <<"3", ".", "5", "-", "r", "c">>
    /\ algBase = DecimalVersion(0, ZeroDigits, 1)

\* --------------------------------------------------------------------------
\* The ledger as it is read: files by name, commits in file order
\* --------------------------------------------------------------------------

MinOf(S) == CHOOSE x \in S : \A y \in S : x <= y

\* the ledger: the files in the order of their names, concatenated
RECURSIVE LedgerOf(_)
LedgerOf(stamps) ==
    IF stamps = {} THEN <<>>
    ELSE files[MinOf(stamps)] \o LedgerOf(stamps \ {MinOf(stamps)})

Ledger == LedgerOf(Stamps)

\* --------------------------------------------------------------------------
\* Properties of versioning (checked under SpecVer)
\* --------------------------------------------------------------------------

VersionsOf(commits) == [i \in 1..Len(commits) |-> commits[i].version]

MessagesOf(commits) == [i \in 1..Len(commits) |-> commits[i].message]

Text23 == <<"2", ".", "3">>

Text23001 == <<"2", ".", "3", "0", "0", "1">>

Text23101 == <<"2", ".", "3", "1", "0", "1">>

Text24 == <<"2", ".", "4">>

Text241 == <<"2", ".", "4", "1">>

\* the tracking run that finishes in this step had a checkpoint of version
\* "2.3" whose commit is in the fetched window, and the file it writes holds
\* exactly two commits, "!fix: patch" then "!feat: add X"
C1_Scenario ==
    /\ pc = "process"
    /\ files' # files
    /\ run.lastSha # NoSha
    /\ FindIndex(run.all, run.lastSha) > 0
    /\ LET lastHist == getLatestHistoryFile
       IN /\ lastHist # <<>>
          /\ lastHist[Len(lastHist)].sha = run.lastSha
          /\ lastHist[Len(lastHist)].version = Text23
    /\ MessagesOf(files'[now']) = <<MsgFixPatch, MsgFeatAddX>>

\* C1 (as the code has it): with a checkpoint of version "2.3" found in the
\* fetched window and exactly two new commits, "!fix: patch" then
\* "!feat: add X", the tracking run writes one ledger file whose commits
\* carry the versions "2.3001" and then "2.3101".
C1_FixThenFeat ==
    [][C1_Scenario =>
          /\ Stamps' = Stamps \cup {now'}
          /\ now' \notin Stamps
          /\ VersionsOf(files'[now']) = <<Text23001, Text23101>>]_vars

\* C1 as stated: in that scenario the file carries "2.4" and then "2.41".
C1_AsStated ==
    [][C1_Scenario =>
          /\ Stamps' = Stamps \cup {now'}
          /\ now' \notin Stamps
          /\ VersionsOf(files'[now']) = <<Text24, Text241>>]_vars

\* C1 witness: the ledger holds a file that ends with version "2.3" and,
\* right after it, the file of the two commits of the scenario
C1_Witness ==
    \E s1, s2 \in Stamps :
        /\ s1 < s2
        /\ \A s \in Stamps : ~(s1 < s /\ s < s2)
        /\ files[s1][Len(files[s1])].version = Text23
        /\ MessagesOf(files[s2]) = <<MsgFixPatch, MsgFeatAddX>>
        /\ VersionsOf(files[s2]) = <<Text23001, Text23101>>

\* a version as one number: (major, digit0..digit4) in lexicographic order
VerKey(v) == v.major * 100000 + LeadNumber(v.digits, 4)

LedgerKey(i) == VerKey(parseVer(Ledger[i].version))

\* C3 (as the code has it): reading the ledger in order, a commit whose
\* message carries no !setver directive is never given a version lower than
\* that of the commit before it, and a commit whose message carries
\* "!setver <text>" is given that text, whatever came before.
C3_NeverLowersWithoutDirective ==
    \A i \in 1..Len(Ledger) :
        LET setver == setverOf[Ledger[i].message]
        IN /\ (setver.kind = "none" /\ i > 1) => LedgerKey(i - 1) <= LedgerKey(i)
           /\ setver.kind = "explicit" => Ledger[i].version = setver.rawVersion

\* C3 as stated: reading the ledger in order, no commit is given a version
\* lower than that of the commit before it.
C3_AsStated == \A i \in 2..Len(Ledger) : LedgerKey(i - 1) <= LedgerKey(i)

\* C3 witness: a directive has lowered the version, and the commit after it,
\* which carries none, was versioned from the lowered one
C3_Witness ==
    \E i \in 2..(Len(Ledger) - 1) :
        /\ setverOf[Ledger[i].message].kind # "none"
        /\ LedgerKey(i) < LedgerKey(i - 1)
        /\ setverOf[Ledger[i + 1].message].kind = "none"
        /\ LedgerKey(i) < LedgerKey(i + 1)
        /\ LedgerKey(i + 1) < LedgerKey(i - 1)

\* --------------------------------------------------------------------------
\* Properties of ordering (checked under SpecReplay)
\* --------------------------------------------------------------------------

\* the version texts that applying the directive or the tier of a commit to
\* the version prev can give; readmeMajor is the marker read for the commit
Applied(prev, message, readmeMajor) ==
    LET setver == setverOf[message]
        tagged == taggedTierOf[message]
    IN IF setver.kind = "explicit" THEN {setver.rawVersion}
       ELSE IF setver.kind = "readmeMajor" THEN
            {IF readmeMajor > 0 THEN NatToStr(readmeMajor) \o <<".", "0">>
             ELSE formatVer(prev)}
       ELSE IF tagged # NoTier THEN {formatVer(bumpVer(prev, tagged))}
       ELSE {formatVer(bumpVer(prev, tier)) : tier \in BumpTier}

\* a list the host gave newest first, read oldest first
OldestFirst(listed) == [i \in 1..Len(listed) |-> listed[Len(listed) - i + 1]]

\* the file a tracking run writes in this step holds the newest commits of
\* the fetched list, oldest first, each versioned from the one before it and
\* the first from the checkpoint
TrackingOrdered ==
    (pc = "process" /\ files' # files) =>
        LET written == files'[now']
            n == Len(written)
            lastHist == getLatestHistoryFile
            base == IF lastHist # <<>> THEN parseVer(lastHist[Len(lastHist)].version)
                    ELSE parseVer(NatToStr(run.major) \o <<".", "0">>)
        IN /\ n <= Len(run.all)
           /\ \A i \in 1..n :
                LET listed == run.all[n - i + 1]
                    prev == IF i = 1 THEN base ELSE parseVer(written[i - 1].version)
                    readmeMajor == IF listed.readme = NoMarker THEN run.major
                                   ELSE listed.readme
                IN /\ written[i].sha = listed.sha
                   /\ written[i].version \in Applied(prev, listed.message, readmeMajor)

\* the commits a replay has versioned so far: those of the files it flushed,
\* then those pending
RECURSIVE Flatten(_)
Flatten(histories) ==
    IF histories = <<>> THEN <<>> ELSE Head(histories) \o Flatten(Tail(histories))

ReplayDone == Flatten(rebuild.histories) \o rebuild.pending

\* the last marker above 0 among the first i commits of items, 0 when none
RECURSIVE SeenMajor(_, _)
SeenMajor(items, i) ==
    IF i = 0 THEN 0
    ELSE IF items[i].readme # NoMarker /\ items[i].readme > 0 THEN items[i].readme
    ELSE SeenMajor(items, i - 1)

\* what a replay has versioned is the start of the fetched list read oldest
\* first, each commit versioned from the one before it and the first from 0.0
ReplayOrdered ==
    LET done == ReplayDone
        items == OldestFirst(rebuild.all)
    IN /\ Len(done) <= Len(items)
       /\ \A i \in 1..Len(done) :
            LET prev == IF i = 1 THEN DecimalVersion(0, ZeroDigits, 1)
                        ELSE parseVer(done[i - 1].version)
            IN /\ done[i].sha = items[i].sha
               /\ done[i].version \in Applied(prev, items[i].message, SeenMajor(items, i))

\* C6: in tracking and in replay, commits are processed and written oldest
\* first, the reverse of the order in which the host listed them, and the
\* version of each is the result of applying its directive or tier to the
\* version of the commit processed just before it (to the checkpoint version
\* for the first new commit of a tracking run).
C6_OldestFirst == [][TrackingOrdered]_vars /\ []ReplayOrdered

\* C6 witness: a replay has versioned three commits over two files, and the
\* ledger also holds a file of two commits written by a tracking run (its
\* stamp is later than the date of its last commit)
C6_Witness ==
    /\ pc = "idle"
    /\ Len(rebuild.histories) >= 2
    /\ Len(ReplayDone) >= 3
    /\ \E s \in Stamps :
          /\ Len(files[s]) >= 2
          /\ s > files[s][Len(files[s])].date
          /\ files[s][1].date < files[s][2].date

\* --------------------------------------------------------------------------
\* Properties of paging and resuming (checked under SpecTrack)
\* --------------------------------------------------------------------------

C4_NoDuplicateSha ==
    \A i, j \in 1..Len(Ledger) : i # j => Ledger[i].sha # Ledger[j].sha

\* C5: when a tracking run that had a checkpoint (still on the branch, the
\* host unchanged during the run) writes a ledger file, every commit of the
\* branch after the checkpoint commit is recorded in the ledger.
C5_NoCommitSkipped ==
    [][(/\ pc = "process"
        /\ files' # files
        /\ ~run.dirty
        /\ run.lastSha # NoSha
        /\ \E i \in 1..Len(run.snapshot) : run.snapshot[i] = run.lastSha)
       => \A i, j \in 1..Len(run.snapshot) :
              (run.snapshot[i] = run.lastSha /\ i < j) =>
                  \E k \in Stamps' : \E n \in 1..Len(files'[k]) :
                      files'[k][n].sha = run.snapshot[j]]_vars

\* C13: once stopSha occurs in a fetched page, fetchCommItms has returned: the
\* stopSha commit is the last one gathered and no page is requested after it;
\* with the host unchanged during the call, what is returned is the host's
\* newest-first list up to and including stopSha. While the call is still
\* paging (host unchanged), every page fetched so far had a successor link.
C13_StopAtCheckpoint ==
    (pc \in {"fetch", "process"}) =>
        LET list == HostList(run.sinceIso) IN
        /\ \A i \in 1..Len(run.all) :
              (run.lastSha # NoSha /\ run.all[i].sha = run.lastSha) =>
                  /\ i = Len(run.all)
                  /\ pc = "process"
                  /\ ~run.dirty => run.all = SubSeq(list, 1, FindIndex(list, run.lastSha))
        /\ (pc = "fetch" /\ ~run.dirty /\ run.page > 1) =>
              /\ HostHasNext(list, run.page - 1)
              /\ run.all = SubSeq(list, 1, (run.page - 1) * PerPage)

\* C13 witness: the checkpoint commit was found as the first commit of the
\* second page, which lists an older commit after it; three commits were
\* returned
C13_Witness ==
    /\ pc = "process"
    /\ ~run.dirty
    /\ run.page = 2
    /\ Len(HostList(run.sinceIso)) = 4
    /\ Len(run.all) = 3
    /\ run.all[3].sha = run.lastSha

\* what a call has gathered is the start of the host's newest-first list
GatheredPrefix(all, list) == Len(all) <= Len(list) /\ all = SubSeq(list, 1, Len(all))

PagingBounded ==
    /\ run.requests <= MaxPages
    /\ rebuild.requests <= MaxAllPages
    /\ pc = "fetch" => run.requests < MaxPages
    /\ pc = "replayFetch" => rebuild.requests < MaxAllPages
    /\ pc = "process" =>
          /\ GatheredPrefix(run.all, HostList(run.sinceIso))
          /\ Len(run.all) >= PerPage * (run.requests - 1)
    /\ pc = "replay" =>
          /\ GatheredPrefix(rebuild.all, HostList(NoDate))
          /\ Len(rebuild.all) >= PerPage * (rebuild.requests - 1)

\* C14: paging is bounded and ends: a call of the incremental fetch issues at
\* most MaxPages page requests (50 in the code) and a call of the
\* full-history fetch at most MaxAllPages (500), whatever the length of the
\* branch and the outcome of each request; the call then returns, with the
\* commits of the pages gathered so far.
C14_PagingBounded ==
    /\ []PagingBounded
    /\ (pc = "fetch") ~> (pc # "fetch")
    /\ (pc = "replayFetch") ~> (pc # "replayFetch")

\* C14 witness: on a branch longer than both caps, a tracking run stopped at
\* its cap and wrote the newest PerPage * MaxPages commits, and a later replay
\* stopped at its cap with PerPage * MaxAllPages commits, the oldest missing
C14_Witness ==
    /\ pc = "replay"
    /\ rebuild.requests = MaxAllPages
    /\ Len(rebuild.items) = PerPage * MaxAllPages
    /\ Len(branch) > Len(rebuild.items)
    /\ \E k \in Stamps :
          /\ Len(files[k]) = PerPage * MaxPages
          /\ files[k][1].sha = Len(branch) - PerPage * MaxPages + 1

\* C15: a page request of a tracking run that fails never ends the run: the
\* run stays in its paging loop or goes on to process what it gathered, and
\* the commits gathered from earlier pages are kept.
C15_FetchErrorsKept ==
    [][pc = "fetch" =>
          /\ pc' \in {"fetch", "process"}
          /\ GatheredPrefix(run.all, run'.all)]_vars

\* the shas a run gathered that are newer than its checkpoint: all of them
\* when the checkpoint is not among them
NewShas ==
    LET stopAt == IF run.lastSha = NoSha THEN 0 ELSE FindIndex(run.all, run.lastSha)
        last == IF stopAt > 0 THEN stopAt - 1 ELSE Len(run.all)
    IN {run.all[i].sha : i \in 1..last}

\* C16: a tracking run writes a ledger file if and only if it has new
\* commits; it then writes exactly one file, which holds exactly the new
\* commits, each once, oldest first.
C16_WritesExactlyNew ==
    [][pc = "process" =>
          /\ (files' # files) <=> (NewShas # {})
          /\ NewShas # {} =>
                \E k \in Stamps' \ Stamps :
                    /\ Stamps' = Stamps \cup {k}
                    /\ \A j \in Stamps : files'[j] = files[j]
                    /\ {files'[k][n].sha : n \in 1..Len(files'[k])} = NewShas
                    /\ \A m, n \in 1..Len(files'[k]) :
                          m < n => files'[k][m].sha < files'[k][n].sha]_vars

\* the checkpoint a tracking run derives from the ledger directory
CheckpointSha ==
    LET lastHist == getLatestHistoryFile
    IN IF Len(lastHist) > 0 THEN lastHist[Len(lastHist)].sha ELSE NoSha

\* C17: the only step of a tracking run that changes the ledger directory is
\* its last one, and the file it adds holds every new commit of the run with
\* its version; a run that ended because a request raised has written
\* nothing, and the checkpoint derived from the directory is still the one
\* the run started from.
C17_AllOrNothing ==
    /\ [][(pc \in {"fetch", "process", "aborted"} /\ files' # files) =>
             /\ pc = "process"
             /\ pc' = "idle"
             /\ \E k \in Stamps' \ Stamps :
                   /\ Stamps' = Stamps \cup {k}
                   /\ \A j \in Stamps : files'[j] = files[j]
                   /\ NewShas = {files'[k][n].sha : n \in 1..Len(files'[k])}
                   /\ \A n \in 1..Len(files'[k]) :
                         files'[k][n].version = formatVer(parseVer(files'[k][n].version))]_vars
    /\ [](pc \in {"fetch", "process", "aborted"} => CheckpointSha = run.lastSha)

\* C17 witness: a run that had a checkpoint and gathered two new commits
\* ended on a raising request
C17_Witness ==
    /\ pc = "aborted"
    /\ run.lastSha # NoSha
    /\ Cardinality(NewShas) = 2
    /\ CheckpointSha = run.lastSha

\* C18: within one replay every flush writes the file named by a stamp that
\* is strictly greater than the stamp of the previous flush, whatever the
\* commit dates; the stamp is the date's stamp when that is greater and
\* otherwise one second after the previous stamp, so the loop that moves it
\* forward ends.
C18_StampsIncrease ==
    [][(pc = "replay" /\ Len(rebuild'.histories) > Len(rebuild.histories)) =>
          LET last == rebuild.lastStampUsed
              stamp == rebuild'.lastStampUsed
              chunk == rebuild'.histories[Len(rebuild'.histories)]
              dated == stampFromIso(chunk[Len(chunk)].date)
          IN /\ stamp \in Stamps'
             /\ files'[stamp] = chunk
             /\ last # NoStamp => stamp > last
             /\ stamp = (IF last # NoStamp /\ dated <= last THEN last + 1 ELSE dated)]_vars

\* C18 witness: a replay flushed three files; the second chunk ends with a
\* commit dated before the end of the first, the third with a commit that
\* has no date, and the stamps are one second apart
C18_Witness ==
    /\ pc = "idle"
    /\ Len(rebuild.histories) = 3
    /\ LET first == rebuild.histories[1]
           second == rebuild.histories[2]
           third == rebuild.histories[3]
       IN /\ first[Len(first)].date = StartTime + 1
          /\ second[Len(second)].date = StartTime - 1
          /\ third[Len(third)].date = NoDate
          /\ rebuild.lastStampUsed = StartTime + 3
          /\ {StartTime + 1, StartTime + 2, StartTime + 3} \subseteq Stamps

\* C19: the commits a replay versions are the whole branch, oldest first: its
\* first commit is the oldest commit of the branch and none is left out,
\* whatever the length of the branch and the outcome of the page requests.
C19_ReplayWholeBranch ==
    (pc = "replay" \/ (pc = "idle" /\ rebuild.requests > 0)) => rebuild.items = branch

\* a file a tracking run wrote from an empty ledger: it starts at the oldest
\* commit of the branch and is stamped after the date of its last commit
\* (replay stamps its files with that date)
TrackedFromEmpty(k) ==
    /\ branch # <<>>
    /\ files[k] # <<>>
    /\ files[k][1].sha = branch[1].sha
    /\ k > files[k][Len(files[k])].date

\* C20: once a replay has versioned the whole branch, every commit that a
\* tracking run versioned from an empty ledger has the same version in the
\* replay (same messages, markers and classifier answers in both).
C20_ModesAgree ==
    (pc = "idle" /\ rebuild.items = branch /\ rebuild.i = Len(rebuild.items)) =>
        \A k \in Stamps : TrackedFromEmpty(k) =>
            \A i \in 1..Len(files[k]), j \in 1..Len(ReplayDone) :
                files[k][i].sha = ReplayDone[j].sha =>
                    files[k][i].version = ReplayDone[j].version

\* the directive each message of DirKinds carries: its argument, "" for the
\* directive without argument, none for a message without directive
StatedDirective(message) ==
    IF message = MsgSetver23Fix THEN [kind |-> "explicit", rawVersion |-> Text23]
    ELSE IF message = MsgSetverSkip THEN [kind |-> "readmeMajor", rawVersion |-> <<>>]
    ELSE NoDirective

\* the running version after a commit that carries the directive
DirectiveResult(prev, message, marker) ==
    LET directive == StatedDirective(message) IN
    IF directive.kind = "explicit" THEN parseVer(directive.rawVersion)
    ELSE IF marker > 0 THEN DecimalVersion(marker, ZeroDigits, 1)
    ELSE prev

\* the marker of a commit: the one of its snapshot and, when withFallback,
\* the fallback major when the snapshot has none
MarkerOf(commit, fallbackMajor, withFallback) ==
    IF commit.readme = NoMarker /\ withFallback THEN fallbackMajor ELSE commit.readme

\* the file a tracking run writes in this step versions every commit that
\* carries the directive by the directive alone
TrackDirectives(withFallback) ==
    (pc = "process" /\ files' # files) =>
        LET written == files'[now']
            n == Len(written)
            lastHist == getLatestHistoryFile
            base == IF lastHist # <<>> THEN parseVer(lastHist[Len(lastHist)].version)
                    ELSE parseVer(NatToStr(run.major) \o <<".", "0">>)
        IN \A i \in 1..n :
             LET listed == run.all[n - i + 1]
                 prev == IF i = 1 THEN base ELSE parseVer(written[i - 1].version)
             IN StatedDirective(listed.message).kind # "none" =>
                    parseVer(written[i].version) =
                        DirectiveResult(prev, listed.message,
                                        MarkerOf(listed, run.major, withFallback))

\* the commit a replay versions in this step, when it carries the directive,
\* is versioned by the directive alone
ReplayDirectives(withFallback) ==
    (pc = "replay" /\ rebuild'.i = rebuild.i + 1) =>
        LET commitObj == rebuild.items[rebuild.i + 1]
        IN StatedDirective(commitObj.message).kind # "none" =>
               rebuild'.current =
                   DirectiveResult(rebuild.current, commitObj.message,
                                   MarkerOf(commitObj, rebuild.lastSeenMajor, withFallback))

\* C21: a commit whose message carries the version directive gets no tier
\* bump, whatever tags the message also carries; with an argument the
\* running version becomes parse(argument); without one it becomes {marker
\* major, digits 0, precision 1} when the marker read for the commit is
\* greater than 0 and stays as it is otherwise, where the marker read for a
\* commit whose snapshot has none is the fallback major (the marker at the
\* branch tip in tracking, the last marker seen in replay).
C21_DirectiveHandling == [][TrackDirectives(TRUE) /\ ReplayDirectives(TRUE)]_vars

\* C21 as stated: the version stays as it is whenever the commit's own
\* snapshot has no marker
C21_AsStated == [][TrackDirectives(FALSE) /\ ReplayDirectives(FALSE)]_vars

\* C21 witness: a replay versioned "!setver !skip" with marker 2 as 2.0, then
\* "!fix: patch" as 2.0001, then "!setver !skip" without marker as 2.0 again
C21_Witness ==
    /\ pc = "idle"
    /\ Len(ReplayDone) = 3
    /\ rebuild.items[1].message = MsgSetverSkip
    /\ rebuild.items[1].readme = 2
    /\ rebuild.items[2].message = MsgFixPatch
    /\ rebuild.items[3].message = MsgSetverSkip
    /\ rebuild.items[3].readme = NoMarker
    /\ ReplayDone[2].version = <<"2", ".", "0", "0", "0", "1">>
    /\ ReplayDone[3].version = <<"2", ".", "0">>

\* prev bumped at digit 4: the five digits read as one number plus one, the
\* carry out of digit 0 added to major, precision 5
TinyOf(prev) ==
    LET n == (LeadNumber(prev.digits, 4) + 1) % Pow10(5)
    IN DecimalVersion(prev.major + (IF n = 0 THEN 1 ELSE 0),
                      [i \in 1..5 |-> (n \div Pow10(5 - i)) % 10], 5)

\* C22: with no classifier configured, every commit a tracking run writes
\* whose message carries no directive, no skip marker and no tier keyword is
\* versioned by a tiny bump of its predecessor's version (digit 4 plus one
\* with carry, precision 5), so its version differs from its predecessor's.
C22_ClassifierFallback ==
    [][(pc = "process" /\ files' # files /\ ~openai) =>
          LET written == files'[now']
              n == Len(written)
              lastHist == getLatestHistoryFile
              baseText == IF lastHist # <<>> THEN lastHist[Len(lastHist)].version
                          ELSE NatToStr(run.major) \o <<".", "0">>
          IN \A i \in 1..n :
               LET prevText == IF i = 1 THEN baseText ELSE written[i - 1].version
               IN NeedsClassifier(written[i].message) =>
                      /\ written[i].version = formatVer(TinyOf(parseVer(prevText)))
                      /\ written[i].version # prevText
                      /\ parseVer(written[i].version) # parseVer(prevText)]_vars

\* C22 witness: without a classifier, "update" after "!setver 2.3" was
\* written as 2.30001
C22_Witness ==
    /\ ~openai
    /\ \E i \in 1..(Len(Ledger) - 1) :
          /\ Ledger[i].message = MsgSetver23
          /\ Ledger[i + 1].message = MsgUntagged
          /\ Ledger[i + 1].version = <<"2", ".", "3", "0", "0", "0", "1">>

\* the classifier's answer keeps the response contract: JSON carrying one of
\* the six tier names and a confidence in 0..1
WithinContract(reply) ==
    /\ reply.kind = "content"
    /\ reply.json
    /\ reply.tier \in Tiers
    /\ reply.confType = "number"
    /\ reply.confidence \in 0..1

\* the running version before the i-th commit of the rebuild
ReplayBefore(i) ==
    IF i = 1 THEN IdleRebuild.current ELSE parseVer(ReplayDone[i - 1].version)

\* C23: every commit the classifier was consulted for is bumped with the
\* tier of the answer when the answer is JSON carrying one of the six tier
\* names and a confidence in 0..1, and with tiny for every other answer
C23_ContractFallback ==
    \A i \in 1..Len(rebuild.answers) :
        LET reply == rebuild.answers[i]
            entry == ReplayDone[i]
        IN reply # NoReply =>
               entry.version =
                   formatVer(bumpVer(ReplayBefore(i),
                                     IF WithinContract(reply) THEN reply.tier ELSE "tiny"))

\* the tier the priority order gives a message with the words ws
StatedTier(ws) ==
    LET present(family) == \E i \in 1..Len(ws) : ws[i].family = family
    IN IF present("skip") THEN "skip"
       ELSE IF present("major") THEN "major"
       ELSE IF present("refactor") THEN "refactor"
       ELSE IF present("feat") THEN "feat"
       ELSE IF present("minor") THEN "minor"
       ELSE IF present("fix") THEN "fix"
       ELSE IF present("tiny") THEN "tiny"
       ELSE NoTier

\* C24: for a message with a skip marker the keyword step yields skip;
\* otherwise it yields the tier of the first family, in the order major,
\* refactor, feat, minor, fix, tiny, of which the message holds a tag,
\* wherever the tags stand in the text; with no tag of any family it yields
\* no tier
C24_KeywordPriority ==
    algSteps = 1 =>
        \A ws \in WordSeqs : algText = JoinWords(ws) => algTier = StatedTier(ws)

\* a tag of the tiny family stands before a tag of the major family
C24_Witness ==
    /\ algSteps = 1
    /\ algText = <<"!", "d", "o", "c", "s", " ", "!", "m", "a", "j", "o", "r">>
    /\ algTier = "major"

\* C25: no diff request ends a run with an error, and every commit written
\* to the ledger carries a diff text that is not empty
C25_DiffNeverEmpty ==
    /\ pc # "aborted"
    /\ \A stamp \in Stamps : \A i \in 1..Len(files[stamp]) : files[stamp][i].diff # ""

\* the number of runs in progress that a timer started
ScheduledRuns ==
    BagCardinality([r \in {x \in BagToSet(sched.runs) : x.kind # "once"} |-> sched.runs[r]])

\* C26: at most one run started by the scheduler's timers is in progress at
\* any time
C26_NoOverlap == ScheduledRuns <= 1

\* the digits beyond the precision of v are 0 and v is read back from its text
RoundTrips(v) ==
    /\ \A i \in 1..5 : i - 1 >= v.precision => v.digits[i] = 0
    /\ parseVer(formatVer(v)) = v

\* C28: in every version reached from parseVer by bumps, explicit version
\* directives and marker-major floors every digit at an index >= precision
\* is 0, and parseVer(formatVer(v)) is v
C28_RoundTrip == RoundTrips(algBase) /\ RoundTrips(algOut)

\* 2.34 after a refactor bump: the precision went down from 2 to 1
C28_Witness ==
    /\ algTier = "refactor"
    /\ algBase.precision > 1
    /\ algBase.digits[2] # 0
    /\ algBase.digits[1] < 9
    /\ algOut.precision = 1
    /\ formatVer(algOut) = NatToStr(algBase.major) \o <<".", DigitChars[algBase.digits[1] + 2]>>

Text3999999 == <<"3", ".", "9", "9", "9", "9", "9", "9">>

\* the argument of the explicit version directive of a message of
\* ExplicitKinds, <<>> for a message without one
ExplicitArgument(message) ==
    IF message = MsgSetverBare THEN <<"2">>
    ELSE IF message = MsgSetverLong THEN Text3999999
    ELSE IF message = MsgSetver23 THEN Text23
    ELSE <<>>

\* the entry of a commit after which the running version is running: the
\* formatted running version or, when asTyped, for a commit with an explicit
\* argument the argument as it was typed, which parses to the running version
RecordedAs(entry, running, asTyped) ==
    IF asTyped /\ ExplicitArgument(entry.message) # <<>>
    THEN /\ entry.version = ExplicitArgument(entry.message)
         /\ parseVer(entry.version) = running
    ELSE entry.version = formatVer(running)

\* every entry of the file a tracking run writes in this step
TrackRecorded(asTyped) ==
    (pc = "process" /\ files' # files) =>
        LET written == files'[now']
        IN \A i \in 1..Len(written) :
               RecordedAs(written[i], parseVer(written[i].version), asTyped)

\* the entry of the commit a replay versions in this step
ReplayRecorded(asTyped) ==
    (pc = "replay" /\ rebuild'.i = rebuild.i + 1) =>
        LET done == Flatten(rebuild'.histories) \o rebuild'.pending
        IN RecordedAs(done[Len(done)], rebuild'.current, asTyped)

\* C29 (amended): the version recorded in a ledger entry is the formatted
\* running version after that commit, "<major>." and 1 to 5 digits, except
\* for a commit with an explicit version argument, whose entry records the
\* argument as typed while the running version is the parsed argument
C29_RecordedVersions == [][TrackRecorded(TRUE) /\ ReplayRecorded(TRUE)]_vars

\* C29 as stated: every recorded version is the formatted running version
C29_AsStated == [][TrackRecorded(FALSE) /\ ReplayRecorded(FALSE)]_vars

\* "!setver 3.999999" is recorded as typed and the fix after it starts from 3.99999
C29_Witness ==
    \E i \in 1..(Len(Ledger) - 1) :
        /\ Ledger[i].message = MsgSetverLong
        /\ Ledger[i].version = Text3999999
        /\ Ledger[i + 1].message = MsgFixPatch
        /\ Ledger[i + 1].version = <<"4", ".", "0", "0", "0", "0">>

\* the marker getMdVer reads when commit is the tip of the branch
TipMajor(commit) == IF commit.readme = NoMarker THEN 0 ELSE commit.readme

\* The run that finishes in this step is the second one after the checkpoint
\* file, and the two runs together versioned every commit pushed since the
\* checkpoint: their versions are those one run over all these commits gives
\* now. With sameTip only the runs count whose marker at the branch tip was
\* the same when they started.
SplitAgrees(sameTip) ==
    (pc = "process" /\ files' # files /\ Cardinality(Stamps) = 2) =>
        LET ckpt == files[MinOf(Stamps)]
            first == files[MaxOf(Stamps)]
            written == files'[now']
            rest == SubSeq(branch, 2, Len(branch))
            whole == trackLoop(parseVer(ckpt[Len(ckpt)].version),
                               newCommitsOf(fetchCommits(Reverse(branch), run.major,
                                                         AllDiffsOk(branch)),
                                            ckpt[Len(ckpt)].sha),
                               [i \in 1..Len(rest) |-> NoReply])
        IN (/\ Len(first) + Len(written) = Len(rest)
            /\ sameTip => TipMajor(branch[1 + Len(first)]) = run.major)
               => VersionsOf(first \o written) = VersionsOf(whole)

\* C27 (amended): commits versioned in two runs, the second resumed from the
\* file of the first, carry the versions one run over all of them gives,
\* provided the marker at the branch tip is the same for the runs
C27_SplitRuns == [][SplitAgrees(TRUE)]_vars

\* C27 as stated: the same whatever the marker at the branch tip of each run
C27_AsStated == [][SplitAgrees(FALSE)]_vars

\* the first run ended on "!setver 3.999999", recorded as typed, and the
\* second run versioned a fix from it
C27_Witness ==
    /\ Cardinality(Stamps) = 3
    /\ LET second == files[MaxOf(Stamps)]
           first == files[MaxOf(Stamps \ {MaxOf(Stamps)})]
       IN /\ first[Len(first)].message = MsgSetverLong
          /\ first[Len(first)].version = Text3999999
          /\ second[1].message = MsgFixPatch
          /\ second[1].version = <<"4", ".", "0", "0", "0", "0">>

ShasOf(commits) == [i \in 1..Len(commits) |-> commits[i].sha]

\* the number of commits of the first i processed that a replay of m commits
\* has flushed: whole chunks, and everything once the last is processed
FlushedOf(i, m) == IF i = m THEN m ELSE (i \div CommitsPerFile) * CommitsPerFile

\* C30: in a replay of M commits with chunks of N = CommitsPerFile, after any
\* number i of processed commits the chunks flushed are the first
\* floor(i / N) * N commits, N in each, every chunk in a file of its own; when
\* the replay is over there are ceil(M / N) files, the last with the
\* remainder, and the files in the order of their stamps, concatenated, are
\* the replayed commits in order, none missing or repeated
C30_ChunksPartition ==
    LET m == Len(rebuild.items)
        i == rebuild.i
        histories == rebuild.histories
    IN (pc = "replay" \/ (pc = "idle" /\ m > 0)) =>
          /\ ShasOf(Flatten(histories)) = ShasOf(SubSeq(rebuild.items, 1, FlushedOf(i, m)))
          /\ Len(histories) = (FlushedOf(i, m) + CommitsPerFile - 1) \div CommitsPerFile
          /\ \A j \in 1..Len(histories) :
                /\ Len(histories[j]) =
                       (IF j * CommitsPerFile <= m THEN CommitsPerFile
                        ELSE m - (j - 1) * CommitsPerFile)
                /\ \E stamp \in Stamps : files[stamp] = histories[j]
          /\ i = m =>
                /\ Cardinality(Stamps) = (m + CommitsPerFile - 1) \div CommitsPerFile
                /\ ShasOf(Ledger) = ShasOf(rebuild.items)

\* a replay of 2 * CommitsPerFile + 1 commits is over: three files, the last
\* with one commit
C30_Witness ==
    /\ pc = "idle"
    /\ Len(rebuild.items) = 2 * CommitsPerFile + 1
    /\ rebuild.i = Len(rebuild.items)
    /\ Len(rebuild.histories) = 3
    /\ Len(rebuild.histories[3]) = 1
    /\ Cardinality(Stamps) = 3

====
